---- MODULE Spec2Model ----
(***************************************************************************)
(* Multi-layer resonance indexing engine of beansapplications.             *)
(*                                                                         *)
(* The repository holds several copies of the engine.  The model keeps     *)
(* four of them as program variants, selected by the variable app:         *)
(*   "brd"  - src/beans_resonance_dash.py                                  *)
(*   "gd"   - src/gematria_dictionary.py                                   *)
(*   "grok" - src/grok_dash.py                                             *)
(*   "v21"  - src/gematria_dictionaryv2.1.py                               *)
(* A behaviour runs one variant from its start-up state; every action is   *)
(* one branch of that variant's Dash callback.                             *)
(*                                                                         *)
(* Texts are TLA+ strings; a character is a string of length 1.            *)
(***************************************************************************)
EXTENDS Integers, Sequences, FiniteSets, TLC

-----------------------------------------------------------------------------
(* Characters and Python's str methods *)

UPPERCASE == "ABCDEFGHIJKLMNOPQRSTUVWXYZ"
LOWERCASE == "abcdefghijklmnopqrstuvwxyz"

Ch(s, i) == SubSeq(s, i, i)

UpperChars == {Ch(UPPERCASE, i) : i \in 1..26}
LowerChars == {Ch(LOWERCASE, i) : i \in 1..26}
Letters == UpperChars \cup LowerChars

\* position of a letter in the alphabet, 1..26, whatever its case
AlphaIndex ==
  [c \in Letters |->
     CHOOSE i \in 1..26 : Ch(UPPERCASE, i) = c \/ Ch(LOWERCASE, i) = c]

IsLetter(c) == c \in Letters
IsSpace(c) == c \in {" ", "\n", "\t"}
\* \w of Python's re for the characters the inputs use
IsWordChar(c) == IsLetter(c) \/ c \in {"0", "1", "2", "3", "4", "5", "6", "7", "8", "9", "_"}

UpperCh(c) == IF c \in LowerChars THEN Ch(UPPERCASE, AlphaIndex[c]) ELSE c
LowerCh(c) == IF c \in UpperChars THEN Ch(LOWERCASE, AlphaIndex[c]) ELSE c

RECURSIVE MapStr(_, _)
MapStr(Op(_), s) ==
  IF Len(s) = 0 THEN "" ELSE Op(Head(s)) \o MapStr(Op, Tail(s))

upper(s) == MapStr(UpperCh, s)
lower(s) == MapStr(LowerCh, s)

\* str.title(): a letter that follows a non-letter is upper-cased, any
\* other letter is lower-cased
RECURSIVE TitleFrom(_, _)
TitleFrom(s, prevIsLetter) ==
  IF Len(s) = 0 THEN ""
  ELSE LET c == Head(s)
       IN  (IF prevIsLetter THEN LowerCh(c) ELSE UpperCh(c))
             \o TitleFrom(Tail(s), IsLetter(c))

title(s) == TitleFrom(s, FALSE)

RECURSIVE LStrip(_)
LStrip(s) == IF Len(s) > 0 /\ IsSpace(Head(s)) THEN LStrip(Tail(s)) ELSE s

RECURSIVE RStrip(_)
RStrip(s) ==
  IF Len(s) > 0 /\ IsSpace(Ch(s, Len(s)))
  THEN RStrip(SubSeq(s, 1, Len(s) - 1)) ELSE s

strip(s) == RStrip(LStrip(s))

\* str.isalnum(): non-empty, letters and digits only; the validation that
\* a search branch calling it in place of isalpha() would apply
isalnum(s) ==
  Len(s) > 0 /\ \A i \in 1..Len(s) : IsWordChar(Ch(s, i)) /\ Ch(s, i) # "_"

\* str.isalpha(): non-empty and letters only
isalpha(s) == Len(s) > 0 /\ \A i \in 1..Len(s) : IsLetter(Ch(s, i))

\* str.replace(s, c, "") for a one-character c
RECURSIVE RemoveChar(_, _)
RemoveChar(s, c) ==
  IF Len(s) = 0 THEN ""
  ELSE (IF Head(s) = c THEN "" ELSE Head(s)) \o RemoveChar(Tail(s), c)

\* re.match(r'^[A-Za-z\s]+$', s); '$' also matches before one trailing newline
MatchLettersSpaces(s) ==
  LET body == IF Len(s) > 0 /\ Ch(s, Len(s)) = "\n"
              THEN {s, SubSeq(s, 1, Len(s) - 1)} ELSE {s}
  IN  \E b \in body :
        Len(b) > 0 /\ \A i \in 1..Len(b) : IsLetter(Ch(b, i)) \/ IsSpace(Ch(b, i))

\* re.match(r"^[A-Za-z\s']+$", s)
MatchLettersSpacesApos(s) ==
  LET body == IF Len(s) > 0 /\ Ch(s, Len(s)) = "\n"
              THEN {s, SubSeq(s, 1, Len(s) - 1)} ELSE {s}
  IN  \E b \in body :
        Len(b) > 0 /\ \A i \in 1..Len(b) :
           IsLetter(Ch(b, i)) \/ IsSpace(Ch(b, i)) \/ Ch(b, i) = "'"

\* re.match(r'^[A-Za-z]{3,}$', s)
MatchWord3(s) ==
  LET body == IF Len(s) > 0 /\ Ch(s, Len(s)) = "\n"
              THEN {s, SubSeq(s, 1, Len(s) - 1)} ELSE {s}
  IN  \E b \in body : Len(b) >= 3 /\ \A i \in 1..Len(b) : IsLetter(Ch(b, i))


\* code point order of the characters the inputs use (sorted() compares by it)
CODEPOINTS == "\t\n !',.0123456789;ABCDEFGHIJKLMNOPQRSTUVWXYZ_abcdefghijklmnopqrstuvwxyz"

CodePoint ==
  [c \in {Ch(CODEPOINTS, i) : i \in 1..Len(CODEPOINTS)} |->
     CHOOSE i \in 1..Len(CODEPOINTS) : Ch(CODEPOINTS, i) = c]

\* s < t for Python strings
RECURSIVE StrLess(_, _)
StrLess(s, t) ==
  IF Len(t) = 0 THEN FALSE
  ELSE IF Len(s) = 0 THEN TRUE
  ELSE IF Head(s) = Head(t) THEN StrLess(Tail(s), Tail(t))
  ELSE CodePoint[Head(s)] < CodePoint[Head(t)]

\* sorted(S) for a set of strings
RECURSIVE SortedSeq(_)
SortedSeq(S) ==
  IF S = {} THEN <<>>
  ELSE LET m == CHOOSE a \in S : \A b \in S \ {a} : StrLess(a, b)
       IN  <<m>> \o SortedSeq(S \ {m})

\* str.split(): the maximal runs of non-whitespace characters
RECURSIVE SplitWs(_, _)
SplitWs(s, cur) ==
  IF Len(s) = 0 THEN (IF cur = "" THEN <<>> ELSE <<cur>>)
  ELSE IF IsSpace(Head(s))
       THEN (IF cur = "" THEN <<>> ELSE <<cur>>) \o SplitWs(Tail(s), "")
       ELSE SplitWs(Tail(s), cur \o Head(s))

split(s) == SplitWs(s, "")

IsSep(c) == IsSpace(c) \/ c \in {",", ";"}

\* re.split(r'[,;\n\s]+', s): the pieces between maximal separator runs,
\* an empty piece where s starts or ends with a separator
RECURSIVE ReSplit(_, _, _)
ReSplit(s, cur, inSep) ==
  IF Len(s) = 0 THEN <<cur>>
  ELSE IF IsSep(Head(s))
       THEN (IF inSep THEN <<>> ELSE <<cur>>) \o ReSplit(Tail(s), "", TRUE)
       ELSE ReSplit(Tail(s), cur \o Head(s), FALSE)

re_split(s) == ReSplit(s, "", FALSE)

\* \b of Python's re at the gap before position k of s
Boundary(s, k) ==
  LET W(i) == i >= 1 /\ i <= Len(s) /\ IsWordChar(Ch(s, i))
  IN  W(k - 1) # W(k)


RECURSIVE FindAllFrom(_, _, _)
\* re.findall(r'\b...\b', s) from position p on, for a pattern whose matches
\* Ok(<<p, e>>) tells (s[p..e] matches the part between the two \b): the
\* leftmost match starts at a boundary and is the longest one that ends at
\* a boundary; the scan goes on after it
FindAllFrom(s, Ok(_), p) ==
  IF p > Len(s) THEN <<>>
  ELSE IF Boundary(s, p) /\ \E e \in p..Len(s) : Ok(<<p, e>>) /\ Boundary(s, e + 1)
       THEN LET last == CHOOSE e \in p..Len(s) :
                          /\ Ok(<<p, e>>) /\ Boundary(s, e + 1)
                          /\ \A f \in (e + 1)..Len(s) : ~(Ok(<<p, f>>) /\ Boundary(s, f + 1))
            IN  <<SubSeq(s, p, last)>> \o FindAllFrom(s, Ok, last + 1)
       ELSE FindAllFrom(s, Ok, p + 1)

\* re.findall(r'\b[A-Za-z]{3,}\b', s)
FindWords3(s) ==
  LET Ok(m) == m[2] - m[1] + 1 >= 3 /\ \A i \in m[1]..m[2] : IsLetter(Ch(s, i))
  IN  FindAllFrom(s, Ok, 1)

\* re.findall(r'\b[A-Za-z\s]{3,}\b', s)
FindPhrases3(s) ==
  LET Ok(m) == /\ m[2] - m[1] + 1 >= 3
               /\ \A i \in m[1]..m[2] : IsLetter(Ch(s, i)) \/ IsSpace(Ch(s, i))
  IN  FindAllFrom(s, Ok, 1)

IsAposLetter(c) == IsLetter(c) \/ c = "'"

\* re.findall(r"\b[A-Za-z']+\b", s)
FindAposWords(s) ==
  LET Ok(m) == \A i \in m[1]..m[2] : IsAposLetter(Ch(s, i))
  IN  FindAllFrom(s, Ok, 1)

\* re.findall(r"\b[A-Za-z']+(?:\s[A-Za-z']+)*\b", s): runs of letters and
\* apostrophes joined by single whitespace characters
FindAposPhrases(s) ==
  LET Ok(m) ==
        /\ IsAposLetter(Ch(s, m[1])) /\ IsAposLetter(Ch(s, m[2]))
        /\ \A i \in m[1]..m[2] : IsAposLetter(Ch(s, i)) \/ IsSpace(Ch(s, i))
        /\ \A i \in m[1]..(m[2] - 1) : ~(IsSpace(Ch(s, i)) /\ IsSpace(Ch(s, i + 1)))
  IN  FindAllFrom(s, Ok, 1)

-----------------------------------------------------------------------------
(* Sequence helpers *)

Range(q) == {q[i] : i \in 1..Len(q)}

InSeq(e, q) == \E i \in 1..Len(q) : q[i] = e

\* list.remove(e): drops the first occurrence
RemoveFirst(q, e) ==
  LET k == CHOOSE i \in 1..Len(q) : q[i] = e /\ \A j \in 1..(i - 1) : q[j] # e
  IN  SubSeq(q, 1, k - 1) \o SubSeq(q, k + 1, Len(q))

-----------------------------------------------------------------------------
(* Encoding functions *)

RECURSIVE SumStr(_, _)
\* sum(Val(c) for c in s)
SumStr(Val(_), s) == IF Len(s) = 0 THEN 0 ELSE Val(Head(s)) + SumStr(Val, Tail(s))

OrdinalValue(c) == IF c \in UpperChars THEN AlphaIndex[c] ELSE 0

\* the sum over the word as it is written, the capitals alone
simpleAsWritten(word) == SumStr(OrdinalValue, word)

simple(word) == SumStr(OrdinalValue, upper(word))

english_ordinal_x_6(word) == simple(word) * 6

QWERTY_ORDER == "QWERTYUIOPASDFGHJKLZXCVBNM"

QWERTY_MAP ==
  [c \in UpperChars |-> CHOOSE i \in 1..26 : Ch(QWERTY_ORDER, i) = c]

QwertyValue(c) == IF c \in UpperChars THEN QWERTY_MAP[c] ELSE 0

qwerty(word) == SumStr(QwertyValue, upper(word))

is_prime(num) ==
  num >= 2 /\ \A i \in 2..num : i * i <= num => num % i # 0

prime_gematria(word) == IF is_prime(simple(word)) THEN simple(word) ELSE 0

-----------------------------------------------------------------------------
(* Bounds and data *)

\* most entries the model lets the operations add to the start-up registry
MaxNew == 2

\* WORDS / INITIAL_WORDS: the entries of each source list that the inputs
\* below interact with, in the source's order
WORDS(a) ==
  CASE a = "brd"  -> <<"Beans", "Love", "Dream", "DREAM">>
    [] a = "gd"   -> <<"Beans", "Love", "lit">>
    [] a = "grok" -> <<"Beans", "Dream", "Love">>
    [] a = "v21"  -> <<"Beans", "Dream", "Love", "Energy">>

\* longest registry the model lets an operation of variant a produce
MaxWords(a) == Len(WORDS(a)) + MaxNew

\* CALC_FUNCS: the layers the model keeps, in registration order
CALC_FUNCS(a) ==
  IF a = "brd" THEN <<"Simple", "English Ordinal x 6", "Qwerty">>
  ELSE <<"Simple", "Qwerty", "Prime Gematria">>

Calc(layer, w) ==
  CASE layer = "Simple" -> simple(w)
    [] layer = "English Ordinal x 6" -> english_ordinal_x_6(w)
    [] layer = "Qwerty" -> qwerty(w)
    [] layer = "Prime Gematria" -> prime_gematria(w)

\* origin tags
MANUAL_IMPORTED == "_MANUAL_/_IMPORTED_LIST_"
MANUAL == "_MANUAL_"
INITIAL == "_INITIAL_"
SEARCH == "_SEARCH_"
USER_FEEDBACK == "_USER_FEEDBACK_"

\* the value of every variable that a variant does not have
NONE == <<>>

-----------------------------------------------------------------------------
(* State *)

VARIABLES
  app,      \* the program variant this behaviour runs
  hashSeed, \* the seed of str.__hash__ of this process (PYTHONHASHSEED)
  words,    \* GLOBAL_WORDS: the Item Registry, a list
  origins,  \* GLOBAL_WORD_ORIGINS: word -> set of origin tags
  layers,   \* GLOBAL_LAYERS: layer -> list of [val, group], first-seen order
  shared,   \* GLOBAL_SHARED_RESONANCES: list of <<layer, val, group>>
  nodes,    \* GLOBAL_G.nodes(), a list without repetition
  edges,    \* GLOBAL_EDGES_BY_LAYER: layer -> list of <<w1, w2, val>>
  pos,      \* GLOBAL_POS: node -> position
  layout,   \* the value of the layout toggle of the page
  db,       \* the rows of the SQLite table words: value -> set of origins
  threads,  \* the requests in progress of a threaded server: thread -> frame
  status,   \* the last request and what the callback answered
  figure    \* the Visible View that the last view query handed to the page

registry == <<words, origins>>
derived == <<layers, shared, nodes, edges, pos>>
\* what no handler of the registry writes: the process and the view last drawn
proc == <<app, hashSeed, figure>>
vars == <<app, hashSeed, words, origins, layers, shared, nodes, edges, pos, layout, db, threads, status, figure>>

\* a request and its answer
Status(op, input, msg) == [op |-> op, input |-> input, msg |-> msg]

-----------------------------------------------------------------------------
(* Python's set: iteration order *)

\* the hash seeds the model starts a process with
HashSeeds == {0, 4}

RECURSIVE HashFrom(_, _)
\* hash(s) of a str: a value fixed for the process by its seed; the model
\* takes a polynomial of the code points in place of SipHash
HashFrom(h, s) ==
  IF Len(s) = 0 THEN h
  ELSE HashFrom((h * 31 + CodePoint[Head(s)]) % 65536, Tail(s))

StrHash(seed, s) == HashFrom(seed * 7919 + 1, s)

RECURSIVE Probe(_, _, _, _, _)
\* the free slot that an insertion reaches in the table of a set (open
\* addressing): slot i, the 9 slots after it when they lie within the table,
\* then slot (i * 5 + 1 + perturb) & mask with perturb shifted right by 5
Probe(table, mask, i, perturb, k) ==
  IF table[i + k] = 0 THEN i + k
  ELSE IF k < (IF i + 9 <= mask THEN 9 ELSE 0)
  THEN Probe(table, mask, i, perturb, k + 1)
  ELSE Probe(table, mask, (i * 5 + 1 + (perturb \div 32)) % (mask + 1), perturb \div 32, 0)

\* the table with element number n, of hash h, entered
InsertClean(table, mask, n, h) ==
  [table EXCEPT ![Probe(table, mask, h % (mask + 1), h, 0)] = n]

RECURSIVE TableOrder(_, _, _)
\* the elements of a table from slot i on, in slot order: the iteration order
TableOrder(table, mask, i) ==
  IF i > mask THEN <<>>
  ELSE (IF table[i] = 0 THEN <<>> ELSE <<table[i]>>) \o TableOrder(table, mask, i + 1)

RECURSIVE NewSize(_, _)
\* the size of a resized table: the first power of two above minused, from 8
NewSize(size, minused) == IF size <= minused THEN NewSize(size * 2, minused) ELSE size

RECURSIVE Reinsert(_, _, _, _, _)
\* a resize enters the elements of the old table, in its slot order, into
\* the new one
Reinsert(seed, d, order, table, mask) ==
  IF order = <<>> THEN table
  ELSE Reinsert(seed, d, Tail(order),
                InsertClean(table, mask, Head(order), StrHash(seed, d[Head(order)])), mask)

\* the table after element n is entered: resized to four times the elements
\* it holds once five times its fill reaches three times its mask
Resized(seed, d, table, mask, n) ==
  IF n * 5 < mask * 3 THEN [table |-> table, mask |-> mask]
  ELSE [table |-> Reinsert(seed, d, TableOrder(table, mask, 0),
                           [i \in 0..(NewSize(8, n * 4) - 1) |-> 0], NewSize(8, n * 4) - 1),
        mask |-> NewSize(8, n * 4) - 1]

RECURSIVE SetAddAll(_, _, _, _)
\* set(d) for distinct elements d: they are entered one by one from number n
\* on into the table t
SetAddAll(seed, d, t, n) ==
  IF n > Len(d) THEN t
  ELSE SetAddAll(seed, d,
                 Resized(seed, d, InsertClean(t.table, t.mask, n, StrHash(seed, d[n])), t.mask, n),
                 n + 1)

\* the elements of d in the iteration order of the table t
Listed(d, t) ==
  [k \in 1..Len(d) |-> d[TableOrder(t.table, t.mask, 0)[k]]]

RECURSIVE Distinct(_, _)
\* an element met again is found in the table and not entered
Distinct(q, seen) ==
  IF q = <<>> THEN <<>>
  ELSE (IF Head(q) \in seen THEN <<>> ELSE <<Head(q)>>)
         \o Distinct(Tail(q), seen \cup {Head(q)})

SetOrderOf(seed, d) ==
  Listed(d, SetAddAll(seed, d, [table |-> [i \in 0..7 |-> 0], mask |-> 7], 1))

\* list(set(q))
SetOrder(seed, q) == SetOrderOf(seed, Distinct(q, {}))

-----------------------------------------------------------------------------
(* The build pipeline *)

\* a layer in which a word opens a group of its own under its value
AppendAsNewGroup(groups, val, w) == Append(groups, [val |-> val, group |-> <<w>>])

\* GLOBAL_LAYERS[layer].setdefault(val, []).append(w)
AppendToGroup(groups, val, w) ==
  IF \E k \in 1..Len(groups) : groups[k].val = val
  THEN [k \in 1..Len(groups) |->
          IF groups[k].val = val
          THEN [val |-> val, group |-> Append(groups[k].group, w)]
          ELSE groups[k]]
  ELSE Append(groups, [val |-> val, group |-> <<w>>])

RECURSIVE BuildLayer(_, _, _)
\* for w in current_words: val = func(w); ...append(w)
BuildLayer(layer, ws, groups) ==
  IF ws = <<>> THEN groups
  ELSE BuildLayer(layer, Tail(ws), AppendToGroup(groups, Calc(layer, Head(ws)), Head(ws)))

LayerSet(a) == Range(CALC_FUNCS(a))

BuildLayers(a, ws) == [l \in LayerSet(a) |-> BuildLayer(l, ws, <<>>)]

RECURSIVE GroupPairsFromI(_, _, _, _)
\* the pairs of one group had the inner loop been range(i, len(group)) from
\* the second row on
GroupPairsFromI(group, val, i, j) ==
  IF i > Len(group) THEN <<>>
  ELSE IF j > Len(group) THEN GroupPairsFromI(group, val, i + 1, i + 1)
  ELSE <<(<<group[i], group[j], val>>)>> \o GroupPairsFromI(group, val, i, j + 1)

\* the pairs (i, j), i < j, of one group, in the order of the two loops
RECURSIVE GroupPairs(_, _, _, _)
GroupPairs(group, val, i, j) ==
  IF i > Len(group) THEN <<>>
  ELSE IF j > Len(group) THEN GroupPairs(group, val, i + 1, i + 2)
  ELSE <<(<<group[i], group[j], val>>)>> \o GroupPairs(group, val, i, j + 1)

RECURSIVE LayerEdges(_)
\* the edges of one layer: every group with more than one word
LayerEdges(groups) ==
  IF groups = <<>> THEN <<>>
  ELSE (IF Len(Head(groups).group) > 1
        THEN GroupPairs(Head(groups).group, Head(groups).val, 1, 2)
        ELSE <<>>) \o LayerEdges(Tail(groups))

\* the position of layer l in CALC_FUNCS
LayerIndex(a, l) == CHOOSE i \in 1..Len(CALC_FUNCS(a)) : CALC_FUNCS(a)[i] = l

\* the edges had a pair that an earlier layer joins been left out of the
\* later layers
BuildEdgesOncePerPair(a, ls) ==
  [l \in LayerSet(a) |->
     SelectSeq(LayerEdges(ls[l]),
               LAMBDA e : ~\E k \in 1..(LayerIndex(a, l) - 1) :
                             \E m \in 1..Len(LayerEdges(ls[CALC_FUNCS(a)[k]])) :
                               {LayerEdges(ls[CALC_FUNCS(a)[k]])[m][1],
                                LayerEdges(ls[CALC_FUNCS(a)[k]])[m][2]} = {e[1], e[2]})]

BuildEdges(a, ls) == [l \in LayerSet(a) |-> LayerEdges(ls[l])]

RECURSIVE LayerSharedAll(_, _)
\* the entries of one layer had the test been len(group) > 0
LayerSharedAll(layer, groups) ==
  IF groups = <<>> THEN <<>>
  ELSE <<(<<layer, Head(groups).val, Head(groups).group>>)>>
         \o LayerSharedAll(layer, Tail(groups))

RECURSIVE LayerShared(_, _)
\* if len(group) > 1: GLOBAL_SHARED_RESONANCES.append((layer, val, group))
LayerShared(layer, groups) ==
  IF groups = <<>> THEN <<>>
  ELSE (IF Len(Head(groups).group) > 1
        THEN <<(<<layer, Head(groups).val, Head(groups).group>>)>>
        ELSE <<>>) \o LayerShared(layer, Tail(groups))

RECURSIVE SharedFrom(_, _)
\* for layer, groups in GLOBAL_LAYERS.items(): ... in registration order
SharedFrom(layerSeq, ls) ==
  IF layerSeq = <<>> THEN <<>>
  ELSE LayerShared(Head(layerSeq), ls[Head(layerSeq)]) \o SharedFrom(Tail(layerSeq), ls)

BuildShared(a, ls) == SharedFrom(CALC_FUNCS(a), ls)

RECURSIVE Dedup(_, _)
\* GLOBAL_G.add_nodes_from(ws): a node is added once, first position kept
Dedup(ws, seen) ==
  IF ws = <<>> THEN <<>>
  ELSE (IF Head(ws) \in seen THEN <<>> ELSE <<Head(ws)>>)
         \o Dedup(Tail(ws), seen \cup {Head(ws)})

\* the nodes had they been taken from the edges of the Simple layer: the
\* words that share their value with another word
BuildNodesFromEdges(ws) ==
  SelectSeq(Dedup(ws, {}),
            LAMBDA w : \E v \in Range(ws) : v # w /\ simple(v) = simple(w))

BuildNodes(ws) == Dedup(ws, {})

\* for w in current_words: if w not in GLOBAL_WORD_ORIGINS: ... = {default}
DefaultOrigins(org, ws, tag) ==
  [w \in DOMAIN org \cup Range(ws) |-> IF w \in DOMAIN org THEN org[w] ELSE {tag}]

\* GLOBAL_WORD_ORIGINS.setdefault(w, set()).add(tag)
AddOrigin(org, w, tag) ==
  [k \in DOMAIN org \cup {w} |->
     IF k = w THEN (IF w \in DOMAIN org THEN org[w] ELSE {}) \cup {tag} ELSE org[k]]

\* GLOBAL_WORD_ORIGINS[w] = {tag}
SetOrigin(org, w, tag) ==
  [k \in DOMAIN org \cup {w} |-> IF k = w THEN {tag} ELSE org[k]]

-----------------------------------------------------------------------------
(* Layouts *)

\* the position of the first occurrence of e in q
FirstIndex(q, e) == CHOOSE i \in 1..Len(q) : q[i] = e /\ \A j \in 1..(i - 1) : q[j] # e

\* [0, 0, 0]
ORIGIN == [xyz |-> <<0, 0, 0>>]

\* networkx.spring_layout(G, dim=3, seed=42, pos=initial_pos, fixed=...):
\* a node in fixed keeps the position it is given; every other node is
\* moved by the force iterations, from the position it is given or from a
\* random one drawn with seed 42; their result is written as the term of
\* its arguments
spring_layout(nodeSeq, initial_pos, fixed) ==
  [n \in Range(nodeSeq) |->
     IF n \in fixed THEN initial_pos[n]
     ELSE [solved |-> n,
           start |-> IF n \in DOMAIN initial_pos THEN initial_pos[n] ELSE [random |-> 42],
           nodeCount |-> Len(nodeSeq)]]

\* step 4 of initialize_graph_data of beans_resonance_dash.py
BrdLayout(ws, nodeSeq, oldPos) ==
  IF ws = <<>> THEN <<>>
  ELSE spring_layout(
         nodeSeq,
         IF DOMAIN oldPos \cap Range(ws) = {} /\ InSeq("Beans", ws)
         THEN [n \in {"Beans"} |-> ORIGIN]
         ELSE [n \in DOMAIN oldPos \cap Range(ws) |-> oldPos[n]],
         IF InSeq("Beans", ws) THEN {"Beans"} ELSE {})

RECURSIVE Gcd(_, _)
Gcd(m, n) == IF n = 0 THEN m ELSE Gcd(n, m % n)

\* the point [r cos t, r sin t, z] with r = 10 and t = 2 pi num / den: equal
\* points have equal reduced fractions of the turn
Ring(num, den, z) ==
  [turn |-> <<(num \div Gcd(num, den)) % (den \div Gcd(num, den)), den \div Gcd(num, den)>>,
   z |-> z]

\* the layouts of the layout toggle
Layouts == {"spiral", "circular", "sphere", "hexagonal_prism", "pyramid"}

\* the others of the spiral: the k-th of them (k from 0) gets the angle
\* k * GOLDEN_ANGLE, the height k / 10 and a radius that the k earlier
\* steps and the presence of Beans in GLOBAL_POS fix
SpiralOthers(nodeSeq) == SelectSeq(nodeSeq, LAMBDA n : n # "Beans")

\* GLOBAL_POS of initialize_graph_data(current_words, layout) of grok_dash.py
GrokLayout(ws, nodeSeq, lay) ==
  CASE lay = "spiral" ->
         [n \in Range(nodeSeq) |->
            IF n = "Beans" THEN ORIGIN
            ELSE [spiral |-> FirstIndex(SpiralOthers(nodeSeq), n) - 1,
                  beansPlaced |-> InSeq("Beans", ws)]]
    [] lay = "circular" ->
         [n \in Range(nodeSeq) |-> Ring(FirstIndex(nodeSeq, n) - 1, Len(nodeSeq), 0)]
    [] lay = "sphere" ->
         [n \in Range(nodeSeq) |->
            [sphere |-> FirstIndex(nodeSeq, n) - 1, nodeCount |-> Len(nodeSeq)]]
    [] lay = "hexagonal_prism" ->
         [n \in Range(nodeSeq) |->
            Ring((FirstIndex(nodeSeq, n) - 1) \div 2, Len(nodeSeq) \div 2 + 1,
                 ((FirstIndex(nodeSeq, n) - 1) % 2) * 10)]
    [] lay = "pyramid" ->
         [n \in Range(nodeSeq) |->
            IF FirstIndex(nodeSeq, n) = 1 THEN [xyz |-> <<0, 0, 10>>]
            ELSE Ring(FirstIndex(nodeSeq, n) - 2, Len(nodeSeq) - 1, 0)]

-----------------------------------------------------------------------------
(* Inputs *)

\* texts typed into the search box
SearchInputs == {"", "love", " Snaeb ", "Sn4eb", "Snaeb Love"}

\* texts pasted into the import box
ImportInputs == {"", "snaeb", "love,Snaeb;x1"}

\* uploaded files: decoded content and file name
FileContents == {"Love snaeb."}
FileNames == {"fileA", "fileB"}
Files == [content : FileContents, filename : FileNames]

\* longest list of files of one upload
MaxFiles == 1

UploadInputs == UNION {[1..n -> Files] : n \in 1..MaxFiles}

\* what re.findall yields on each content: r'\b[A-Za-z]{3,}\b' on its lower
\* case, r'\b[A-Za-z\s]{3,}\b' and r"\b[A-Za-z']+(?:\s[A-Za-z']+)*\b"
FileWords3 == [c \in FileContents |-> FindWords3(lower(c))]
FilePhrases3 == [c \in FileContents |-> FindPhrases3(c)]
FileAposPhrases == [c \in FileContents |-> FindAposPhrases(c)]

LowerWords(ws) == {lower(ws[i]) : i \in 1..Len(ws)}

-----------------------------------------------------------------------------
(* beans_resonance_dash.py: update_output *)

\* initialize_graph_data(GLOBAL_WORDS) once its layers and nodes are built,
\* and the answer st of the callback
BrdAssign(ws, org, ls, ns, st) ==
  /\ Len(ws) <= MaxWords("brd")
  /\ words' = ws
  /\ origins' = org
  /\ layers' = ls
  /\ nodes' = ns
  /\ edges' = BuildEdges("brd", ls)
  /\ pos' = BrdLayout(ws, ns, pos)
  /\ status' = st
  /\ UNCHANGED <<proc, layout, shared, db, threads>>

\* initialize_graph_data(current_words) of beans_resonance_dash.py
BrdInitialize(ws, org, st) ==
  BrdAssign(ws, DefaultOrigins(org, ws, MANUAL_IMPORTED), BuildLayers("brd", ws),
            BuildNodes(ws), st)

\* a branch that changes the origins at most
BrdKeep(org, st) ==
  /\ origins' = org
  /\ status' = st
  /\ UNCHANGED <<proc, layout, words, derived, db, threads>>

\* the search branch for the stripped text
BrdSearchWord(text, word) ==
  IF word # "" /\ isalpha(word)
  THEN IF lower(title(word)) \notin LowerWords(words)
       THEN BrdInitialize(Append(words, title(word)),
                          AddOrigin(origins, title(word), MANUAL_IMPORTED),
                          Status("search", text, "added to network"))
       ELSE BrdKeep(origins, Status("search", text, "already in network"))
  ELSE BrdKeep(origins, Status("search", text, "Please enter a valid word (letters only)."))

\* the search button or Enter in the search box
BrdSearch(text) ==
  /\ app = "brd"
  /\ BrdSearchWord(text, strip(text))

\* new_words_processed of the import and the word-list branches
ValidTokens(text) ==
  SelectSeq([i \in 1..Len(re_split(strip(text))) |-> strip(re_split(strip(text))[i])],
            LAMBDA w : w # "" /\ isalpha(w))

RECURSIVE BrdImportLoop(_, _, _, _)
\* for word in new_words_processed: ... of the import branch
BrdImportLoop(toks, ws, org, added) ==
  IF toks = <<>> THEN [words |-> ws, origins |-> org, added |-> added]
  ELSE IF lower(Head(toks)) \notin LowerWords(ws)
       THEN BrdImportLoop(Tail(toks), Append(ws, Head(toks)),
                          AddOrigin(org, Head(toks), MANUAL_IMPORTED), added + 1)
       ELSE BrdImportLoop(Tail(toks), ws, org, added)

\* the end of the import branch, r the result of its loop
BrdImported(text, r) ==
  IF r.added > 0
  THEN BrdInitialize(r.words, r.origins, Status("import", text, "Successfully imported"))
  ELSE BrdKeep(origins, Status("import", text, "No new valid words to import or words already exist."))

\* the import button
BrdImport(text) ==
  /\ app = "brd"
  /\ text # ""
  /\ BrdImported(text, BrdImportLoop(ValidTokens(text), words, origins, 0))

RECURSIVE BrdMarkdownWords(_, _, _, _, _)
\* for word in words_from_markdown: ... of one file
BrdMarkdownWords(found, filename, ws, org, new) ==
  IF found = <<>> THEN [origins |-> org, new |-> new]
  ELSE BrdMarkdownWords(Tail(found), filename, ws,
         AddOrigin(org, title(Head(found)), filename),
         IF lower(title(Head(found))) \notin LowerWords(ws)
         THEN Append(new, title(Head(found))) ELSE new)

\* the next file of the loop, r the result of the files before it
BrdMarkdownFile(file, ws, r) ==
  BrdMarkdownWords(FileWords3[file.content], file.filename, ws, r.origins, r.new)

RECURSIVE BrdMarkdownFiles(_, _, _)
\* for content_string, filename in zip(contents_list, filenames_list): ...
BrdMarkdownFiles(files, ws, r) ==
  IF files = <<>> THEN r
  ELSE BrdMarkdownFiles(Tail(files), ws, BrdMarkdownFile(Head(files), ws, r))

\* the end of the markdown branch: the new words are appended in the
\* iteration order of the set all_new_words_from_markdown
BrdUploaded(files, r) ==
  IF r.new # <<>>
  THEN BrdInitialize(words \o SetOrder(hashSeed, r.new), r.origins,
                     Status("upload", files, "Successfully extracted and imported"))
  ELSE BrdKeep(r.origins, Status("upload", files, "No new key phrases found"))

\* the markdown upload
BrdUploadMarkdown(files) ==
  /\ app = "brd"
  /\ BrdUploaded(files, BrdMarkdownFiles(files, words, [origins |-> origins, new |-> <<>>]))

RECURSIVE BrdWordListLoop(_, _, _, _)
\* for word in new_words_from_list_processed: ... of the word-list upload
BrdWordListLoop(toks, ws, org, added) ==
  IF toks = <<>> THEN [words |-> ws, origins |-> org, added |-> added]
  ELSE IF lower(title(Head(toks))) \notin LowerWords(ws)
       THEN BrdWordListLoop(Tail(toks), Append(ws, title(Head(toks))),
                            AddOrigin(org, title(Head(toks)), MANUAL_IMPORTED), added + 1)
       ELSE BrdWordListLoop(Tail(toks), ws,
                            AddOrigin(org, title(Head(toks)), MANUAL_IMPORTED), added)

\* the end of the word-list branch
BrdWordListed(text, r) ==
  IF r.added > 0
  THEN BrdInitialize(r.words, r.origins, Status("wordlist", text, "Successfully imported"))
  ELSE BrdKeep(r.origins, Status("wordlist", text, "No new valid words found"))

\* the word-list upload
BrdUploadWordList(text) ==
  /\ app = "brd"
  /\ BrdWordListed(text, BrdWordListLoop(ValidTokens(text), words, origins, 0))

-----------------------------------------------------------------------------
(* gematria_dictionary.py and grok_dash.py: initialize_data,                *)
(* initialize_graph_data and the branches of update_app that the two share  *)

TitleAll(q) == [i \in 1..Len(q) |-> title(q[i])]

\* list(set(w.title() for w in current_words if re.match(r'^[A-Za-z\s]+$', w)))
TitleList(seed, ws) ==
  SetOrder(seed, TitleAll(SelectSeq(ws, LAMBDA w : MatchLettersSpaces(w))))

\* the graph of grok_dash.py; gematria_dictionary.py has none
DictGraph(a, lay, ws, ls) ==
  IF a = "grok"
  THEN /\ nodes' = ws
       /\ edges' = BuildEdges(a, ls)
       /\ pos' = GrokLayout(ws, ws, lay)
  ELSE UNCHANGED <<nodes, edges, pos>>

\* the rebuild once GLOBAL_WORDS and GLOBAL_LAYERS are rebuilt, and the
\* answer st of the callback
DictAssign(a, lay, ws, org, ls, st) ==
  /\ Len(ws) <= MaxWords(a)
  /\ words' = ws
  /\ origins' = DefaultOrigins(org, ws, MANUAL)
  /\ layers' = ls
  /\ shared' = BuildShared(a, ls)
  /\ DictGraph(a, lay, ws, ls)
  /\ layout' = lay
  /\ status' = st
  /\ UNCHANGED <<proc, db, threads>>

DictRebuilt(a, lay, ws, org, st) ==
  DictAssign(a, lay, ws, org, BuildLayers(a, ws), st)

\* initialize_data(GLOBAL_WORDS) / initialize_graph_data(GLOBAL_WORDS, layout)
\* for the registry r that a branch leaves
DictInitialize(a, lay, r, st) ==
  DictRebuilt(a, lay, TitleList(hashSeed, r.words), r.origins, st)

\* a branch that changes nothing
DictKeep(st) ==
  /\ status' = st
  /\ UNCHANGED <<proc, layout, registry, derived, db, threads>>

HasSpace(w) == \E i \in 1..Len(w) : Ch(w, i) = " "

RECURSIVE AddSubWords(_, _, _)
\* for sub_word in word.split(): if re.match(...) and sub_word.title() not in
\* GLOBAL_WORDS: append it with origin {'_MANUAL_'}
AddSubWords(subs, ws, org) ==
  IF subs = <<>> THEN [words |-> ws, origins |-> org]
  ELSE IF MatchWord3(Head(subs)) /\ ~InSeq(title(Head(subs)), ws)
       THEN AddSubWords(Tail(subs), Append(ws, title(Head(subs))),
                        SetOrigin(org, title(Head(subs)), MANUAL))
       ELSE AddSubWords(Tail(subs), ws, org)

\* the body of "if word not in GLOBAL_WORDS:" of search and import
AddWithSubWords(word, ws, org) ==
  IF HasSpace(word)
  THEN AddSubWords(split(word), Append(ws, word), SetOrigin(org, word, MANUAL))
  ELSE [words |-> Append(ws, word), origins |-> SetOrigin(org, word, MANUAL)]

\* the search branch for word = search_word.strip().title()
DictSearchWord(a, lay, text, word) ==
  IF MatchLettersSpaces(word)
  THEN IF ~InSeq(word, words)
       THEN DictInitialize(a, lay, AddWithSubWords(word, words, origins),
                           Status("search", text, "Added"))
       ELSE DictKeep(Status("search", text, "already exists"))
  ELSE DictKeep(Status("search", text, "Invalid word/phrase"))

\* new_words of the import branch
ImportTokens(text) ==
  TitleAll(SelectSeq([i \in 1..Len(re_split(text)) |-> strip(re_split(text)[i])],
                     LAMBDA w : MatchLettersSpaces(w)))

RECURSIVE ImportLoop(_, _)
\* for w in new_words: if w not in GLOBAL_WORDS: ...; r.added counts them
ImportLoop(toks, r) ==
  IF toks = <<>> THEN r
  ELSE IF ~InSeq(Head(toks), r.words)
       THEN ImportLoop(Tail(toks),
              [added |-> r.added + 1] @@ AddWithSubWords(Head(toks), r.words, r.origins))
       ELSE ImportLoop(Tail(toks), r)

\* the end of the import branch
DictImported(a, lay, text, r) ==
  IF r.added > 0
  THEN DictInitialize(a, lay, r, Status("import", text, "Added"))
  ELSE DictKeep(Status("import", text, ""))

\* the import branch
DictImport(a, lay, text) ==
  DictImported(a, lay, text,
    ImportLoop(ImportTokens(text), [words |-> words, origins |-> origins, added |-> 0]))

\* phrases of the upload branch
UploadPhrases(decoded, ws) ==
  TitleAll(SelectSeq(FilePhrases3[decoded],
                     LAMBDA w : ~InSeq(title(w), ws) /\ MatchLettersSpaces(w)))

\* [w.title() for w in phrase.split() if re.match(...) and w.title() not in GLOBAL_WORDS]
PhraseWords(phrase, ws) ==
  TitleAll(SelectSeq(split(phrase), LAMBDA w : MatchWord3(w) /\ ~InSeq(title(w), ws)))

RECURSIVE UploadLoop(_, _, _, _)
\* for phrase in phrases: ... (withSub) and for w in words: ... (not withSub)
\* of one file; r.sub collects words
UploadLoop(items, filename, withSub, r) ==
  IF items = <<>> THEN r
  ELSE UploadLoop(Tail(items), filename, withSub,
         [words |-> IF ~InSeq(Head(items), r.words)
                    THEN Append(r.words, Head(items)) ELSE r.words,
          origins |-> IF ~InSeq(Head(items), r.words)
                      THEN SetOrigin(r.origins, Head(items), filename) ELSE r.origins,
          added |-> IF ~InSeq(Head(items), r.words) THEN r.added + 1 ELSE r.added,
          sub |-> IF withSub /\ HasSpace(Head(items))
                  THEN r.sub \o PhraseWords(Head(items), r.words) ELSE r.sub])

\* the second loop of one file, r the result of the first
UploadWords(filename, r) == UploadLoop(r.sub, filename, FALSE, r)

\* the two loops of one file and its initialize_data(GLOBAL_WORDS); r.sub
\* starts empty for every file
UploadOneFile(file, r) ==
  [sub |-> <<>>] @@
  UploadWords(file.filename,
              UploadLoop(UploadPhrases(file.content, r.words), file.filename, TRUE, r))

\* GLOBAL_WORDS and the default origins after the rebuild that ends a file
FileRebuilt(ws, r) ==
  [words |-> ws, origins |-> DefaultOrigins(r.origins, ws, MANUAL)] @@ r

UploadFileDone(seed, r) == FileRebuilt(TitleList(seed, r.words), r)

RECURSIVE UploadFiles(_, _, _)
\* for content, filename in zip(contents, filenames): ...
UploadFiles(seed, files, r) ==
  IF files = <<>> THEN r
  ELSE UploadFiles(seed, Tail(files), UploadFileDone(seed, UploadOneFile(Head(files), r)))

\* the upload branch: the last file's rebuild leaves the state
DictUpload(a, lay, files) ==
  DictInitialize(a, lay,
    UploadFiles(hashSeed, files,
                [words |-> words, origins |-> origins, added |-> 0, sub |-> <<>>]),
    Status("upload", files, "Added"))

-----------------------------------------------------------------------------
(* gematria_dictionary.py: update_app *)

\* the search button or Enter in the search box
GdSearch(text) ==
  /\ app = "gd"
  /\ text # ""
  /\ DictSearchWord("gd", layout, text, title(strip(text)))

\* the import button
GdImport(text) ==
  /\ app = "gd"
  /\ text # ""
  /\ DictImport("gd", layout, text)

\* the markdown upload
GdUpload(files) ==
  /\ app = "gd"
  /\ DictUpload("gd", layout, files)

\* SENTENCE_TEMPLATES: the first and the third template
Template1(w1, w2) == w1 \o " is " \o w2 \o ", yo!"
Template3(w1, w2, w3) == "Yo, " \o w1 \o " and " \o w2 \o " got that " \o w3 \o " energy!"

\* sentences that generate_sentence() made from the start-up registry and
\* that the page still shows
Sentences(a) ==
  IF a = "gd"
  THEN {Template1("Beans", "Love")}
  ELSE {Template3("Love", "Dream", "Beans")}

\* words of the feedback branch
FeedbackWords(sentence, ws) ==
  SelectSeq([i \in 1..Len(split(sentence)) |-> lower(split(sentence)[i])],
            LAMBDA w : w \in LowerWords(ws))

RECURSIVE GdFeedbackLoop(_, _, _)
\* for w in words: if w in [w.lower() for w in GLOBAL_WORDS]: append
\* w.title() (thumbs up) or remove w.title() if it is there (thumbs down)
GdFeedbackLoop(toks, score, ws) ==
  IF toks = <<>> THEN ws
  ELSE GdFeedbackLoop(Tail(toks), score,
         IF Head(toks) \notin LowerWords(ws) THEN ws
         ELSE IF score > 0 THEN Append(ws, title(Head(toks)))
         ELSE IF InSeq(title(Head(toks)), ws) THEN RemoveFirst(ws, title(Head(toks)))
         ELSE ws)

\* the end of the feedback branch: nothing is rebuilt
GdFeedbackDone(ws, st) ==
  /\ Len(ws) <= MaxWords("gd")
  /\ words' = ws
  /\ status' = st
  /\ UNCHANGED <<proc, layout, origins, derived, db, threads>>

\* thumbs up (score 1) or thumbs down (score -1) on the sentence shown
GdFeedback(sentence, score) ==
  /\ app = "gd"
  /\ GdFeedbackDone(GdFeedbackLoop(FeedbackWords(sentence, words), score, words),
                    Status(IF score > 0 THEN "thumbs-up" ELSE "thumbs-down", sentence,
                           "Feedback recorded"))

-----------------------------------------------------------------------------
(* grok_dash.py: update_app *)

\* the layout toggle
GrokLayoutToggle(lay) ==
  /\ app = "grok"
  /\ DictInitialize("grok", lay, [words |-> words, origins |-> origins],
                    Status("layout", lay, ""))

\* the search button or Enter in the search box
GrokSearch(text) ==
  /\ app = "grok"
  /\ text # ""
  /\ DictSearchWord("grok", layout, text, title(strip(text)))

\* the import button
GrokImport(text) ==
  /\ app = "grok"
  /\ text # ""
  /\ DictImport("grok", layout, text)

\* the markdown upload
GrokUpload(files) ==
  /\ app = "grok"
  /\ DictUpload("grok", layout, files)

-----------------------------------------------------------------------------
(* gematria_dictionaryv2.1.py: the table words, the loaders, update_app *)

\* len(word.replace(" ", "").replace("'", ""))
LetterCount(word) == Len(RemoveChar(RemoveChar(word, " "), "'"))

\* the table after UPDATE ... SET origin (the row exists) or INSERT (it does
\* not) of add_or_update_word_in_db
Upsert(d, word, origin_list) ==
  [k \in DOMAIN d \cup {word} |->
     IF k = word THEN (IF word \in DOMAIN d THEN d[word] ELSE {}) \cup origin_list
     ELSE d[k]]

\* add_or_update_word_in_db(word, origin_list): the table and the result
add_or_update_word_in_db(d, word, origin_list) ==
  IF LetterCount(word) < 4 THEN [db |-> d, ret |-> FALSE]
  ELSE [db |-> Upsert(d, word, origin_list), ret |-> TRUE]

\* delete_word_from_db(word) had it returned cursor.rowcount > 0
delete_word_reporting_rows(d, word) ==
  [db |-> [k \in DOMAIN d \ {word} |-> d[k]], ret |-> word \in DOMAIN d]

\* delete_word_from_db(word): the table and the result
delete_word_from_db(d, word) ==
  [db |-> [k \in DOMAIN d \ {word} |-> d[k]], ret |-> TRUE]

\* the rows that load_words_and_origins_from_db keeps
LongRows(d) == {w \in DOMAIN d : LetterCount(w) >= 4}

RECURSIVE LoadInitial(_, _)
\* for word in INITIAL_WORDS: a word that the loaded rows lack is written
\* to the table and joins them with '_INITIAL_'
LoadInitial(initial, r) ==
  IF initial = <<>> THEN r
  ELSE LoadInitial(Tail(initial),
         IF title(Head(initial)) \in DOMAIN r.origins
            \/ ~add_or_update_word_in_db(r.db, title(Head(initial)), {INITIAL}).ret
         THEN r
         ELSE [db |-> add_or_update_word_in_db(r.db, title(Head(initial)), {INITIAL}).db,
               origins |-> AddOrigin(r.origins, title(Head(initial)), INITIAL)])

\* load_words_and_origins_from_db(): the table, GLOBAL_WORD_ORIGINS; the
\* table documents does not exist
load_words_and_origins_from_db(d) ==
  LoadInitial(WORDS("v21"), [db |-> d, origins |-> [w \in LongRows(d) |-> d[w]]])

\* rebuild_gematria_cache() for the loaded GLOBAL_WORDS = ws, and the rest
\* of the state after a branch that reloads
V21Assign(r, ws, ls, st) ==
  /\ Cardinality(DOMAIN r.db) <= MaxWords("v21")
  /\ db' = r.db
  /\ words' = ws
  /\ origins' = r.origins
  /\ layers' = ls
  /\ shared' = BuildShared("v21", ls)
  /\ status' = st
  /\ UNCHANGED <<proc, layout, nodes, edges, pos, threads>>

V21Rebuilt(r, ws, st) == V21Assign(r, ws, BuildLayers("v21", ws), st)

\* load_words_and_origins_from_db(); rebuild_gematria_cache() on the table d
V21Loaded(r, st) == V21Rebuilt(r, SortedSeq(DOMAIN r.origins), st)

V21Reload(d, st) == V21Loaded(load_words_and_origins_from_db(d), st)

RECURSIVE AddAll(_, _, _)
\* for w in ...: add_or_update_word_in_db(w, origin_list)
AddAll(d, items, origin_list) ==
  IF items = <<>> THEN d
  ELSE AddAll(add_or_update_word_in_db(d, Head(items), origin_list).db, Tail(items),
              origin_list)

\* new_words of the import branch
V21ImportTokens(text) ==
  TitleAll(SelectSeq([i \in 1..Len(re_split(text)) |-> strip(re_split(text)[i])],
                     LAMBDA w : MatchLettersSpacesApos(w)))

\* the import button: the reload before the branch runs for an empty box too
V21Import(text) ==
  /\ app = "v21"
  /\ V21Reload(AddAll(load_words_and_origins_from_db(db).db, V21ImportTokens(text), {MANUAL}),
               Status("import", text, IF text = "" THEN "" ELSE "Added"))

\* the search branch for word = search_word.strip().title(): the table is
\* written, the loaded registry and the cache are left as they are
V21SearchWord(text, word) ==
  /\ IF MatchLettersSpacesApos(word)
     THEN IF LetterCount(word) >= 4
          THEN /\ db' = add_or_update_word_in_db(db, word, {SEARCH}).db
               /\ status' = Status("search", text, "Added (or updated origin)")
          ELSE /\ db' = db
               /\ status' = Status("search", text, "too short")
     ELSE /\ db' = db
          /\ status' = Status("search", text, "Invalid word/phrase")
  /\ Cardinality(DOMAIN db') <= MaxWords("v21")
  /\ UNCHANGED <<proc, layout, registry, derived, threads>>

\* the search button or Enter in the search box
V21Search(text) ==
  /\ app = "v21"
  /\ text # ""
  /\ V21SearchWord(text, title(strip(text)))

RECURSIVE V21UploadFiles(_, _)
\* for content, filename in zip(upload_contents, upload_filenames): ...
V21UploadFiles(d, files) ==
  IF files = <<>> THEN d
  ELSE V21UploadFiles(
         AddAll(d, TitleAll([i \in 1..Len(FileAposPhrases[Head(files).content]) |->
                               strip(FileAposPhrases[Head(files).content][i])]),
                {Head(files).filename}),
         Tail(files))

\* the markdown upload
V21Upload(files) ==
  /\ app = "v21"
  /\ V21Reload(V21UploadFiles(load_words_and_origins_from_db(db).db, files),
               Status("upload", files, "Added"))

\* thumbs down on one word: the row goes if '_USER_FEEDBACK_' is its only
\* origin, else the row loses that origin
ThumbsDownWord(d, w_title) ==
  IF w_title \notin DOMAIN d THEN d
  ELSE IF d[w_title] = {USER_FEEDBACK} THEN delete_word_from_db(d, w_title).db
  ELSE [d EXCEPT ![w_title] = @ \ {USER_FEEDBACK}]

RECURSIVE V21FeedbackLoop(_, _, _)
\* for w_lower in words_in_sentence: ...
V21FeedbackLoop(d, toks, score) ==
  IF toks = <<>> THEN d
  ELSE V21FeedbackLoop(
         IF score > 0 THEN add_or_update_word_in_db(d, title(Head(toks)), {USER_FEEDBACK}).db
         ELSE ThumbsDownWord(d, title(Head(toks))),
         Tail(toks), score)

\* thumbs up (score 1) or thumbs down (score -1) on the sentence shown
V21Feedback(sentence, score) ==
  /\ app = "v21"
  /\ V21Reload(V21FeedbackLoop(load_words_and_origins_from_db(db).db,
                               FindAposWords(lower(sentence)), score),
               Status(IF score > 0 THEN "thumbs-up" ELSE "thumbs-down", sentence,
                      "Feedback recorded"))

-----------------------------------------------------------------------------
(* Start-up and the sequential specification *)

\* what is rebuilt at start-up from the module-level lists
StartAssign(a, ws, ls, ns) ==
  /\ words = ws
  /\ layers = ls
  /\ shared = IF a = "brd" THEN NONE ELSE BuildShared(a, ls)
  /\ nodes = ns
  /\ edges = IF a \in {"brd", "grok"} THEN BuildEdges(a, ls) ELSE NONE
  /\ pos = CASE a = "brd" -> BrdLayout(ws, ns, <<>>)
             [] a = "grok" -> GrokLayout(ws, ns, "spiral")
             [] OTHER -> NONE

StartRebuilt(a, ws) ==
  StartAssign(a, ws, BuildLayers(a, ws), IF a \in {"brd", "grok"} THEN BuildNodes(ws) ELSE NONE)

\* beans_resonance_dash.py: GLOBAL_WORDS = list(WORDS) and
\* initialize_graph_data(GLOBAL_WORDS)
BrdInitWith(ws) ==
  /\ app = "brd"
  /\ origins = DefaultOrigins(<<>>, ws, MANUAL_IMPORTED)
  /\ StartRebuilt("brd", ws)
  /\ db = NONE

BrdInit == BrdInitWith(WORDS("brd"))

\* gematria_dictionary.py and grok_dash.py: GLOBAL_WORD_ORIGINS of the
\* listed words and the first initialize_data / initialize_graph_data
DictInit(a) ==
  /\ app = a
  /\ origins = DefaultOrigins(DefaultOrigins(<<>>, WORDS(a), MANUAL),
                              TitleList(hashSeed, WORDS(a)), MANUAL)
  /\ StartRebuilt(a, TitleList(hashSeed, WORDS(a)))
  /\ db = NONE

\* gematria_dictionaryv2.1.py: the first load and rebuild on an empty table
V21Init ==
  /\ app = "v21"
  /\ db = load_words_and_origins_from_db(<<>>).db
  /\ origins = load_words_and_origins_from_db(<<>>).origins
  /\ StartRebuilt("v21", SortedSeq(DOMAIN load_words_and_origins_from_db(<<>>).origins))

\* gematria_dictionaryv2.1.py sorts its words and never takes the order of a
\* set of strings, so one seed stands for all its processes
SeedMatters(seed) == app = "v21" => seed = 0

\* the state once the module is imported and the server listens
Start ==
  /\ hashSeed \in HashSeeds
  /\ status = Status("start", "", "")
  /\ \/ BrdInit
     \/ DictInit("gd")
     \/ DictInit("grok")
     \/ V21Init
  /\ SeedMatters(hashSeed)
  /\ layout = IF app = "grok" THEN "spiral" ELSE ""
  /\ figure = NONE

\* one request at a time
Init ==
  /\ Start
  /\ threads = NONE

Next ==
  \/ \E text \in SearchInputs : BrdSearch(text)
  \/ \E text \in ImportInputs : BrdImport(text)
  \/ \E files \in UploadInputs : BrdUploadMarkdown(files)
  \/ \E text \in ImportInputs : BrdUploadWordList(text)
  \/ \E text \in SearchInputs : GdSearch(text)
  \/ \E text \in ImportInputs : GdImport(text)
  \/ \E files \in UploadInputs : GdUpload(files)
  \/ \E sentence \in Sentences("gd"), score \in {1, -1} : GdFeedback(sentence, score)
  \/ \E lay \in Layouts : GrokLayoutToggle(lay)
  \/ \E text \in SearchInputs : GrokSearch(text)
  \/ \E text \in ImportInputs : GrokImport(text)
  \/ \E files \in UploadInputs : GrokUpload(files)
  \/ \E text \in SearchInputs : V21Search(text)
  \/ \E text \in ImportInputs : V21Import(text)
  \/ \E files \in UploadInputs : V21Upload(files)
  \/ \E sentence \in Sentences("v21"), score \in {1, -1} : V21Feedback(sentence, score)

Spec == Init /\ [][Next]_vars


-----------------------------------------------------------------------------
(* Requests served concurrently: app.run() serves every request on a thread *)
(* of its own, and no lock guards the module's globals or the table         *)

\* most requests in progress at a time
MaxThreads == 2

Threads == 1..MaxThreads

\* texts that concurrent searches send, words and origins that concurrent
\* calls of add_or_update_word_in_db get
ConcTexts == {" Snaeb ", "love"}
ConcWords == {"Snaeb", "Love"}
ConcOrigins == {SEARCH, "fileA"}

\* the locals of a request at the statement pc
Frame(pc, text, word, origin_list, found, existing) ==
  [pc |-> pc, text |-> text, word |-> word, origin_list |-> origin_list,
   found |-> found, existing |-> existing]

IdleFrame == Frame("idle", "", "", {}, FALSE, {})

\* Python's str() of a bool
BoolStr(b) == IF b THEN "True" ELSE "False"

\* thread t goes on to pc with the same locals
Goto(t, pc) == threads' = [threads EXCEPT ![t].pc = pc]

\* thread t returns
Return(t) == threads' = [threads EXCEPT ![t] = IdleFrame]

\* the lookup of the search branch of beans_resonance_dash.py:
\* "if word_to_process_title.lower() not in [w.lower() for w in GLOBAL_WORDS]"
ConcLookupWord(t, text, word) ==
  IF lower(word) \notin LowerWords(words)
  THEN /\ threads' = [threads EXCEPT ![t] = Frame("insert", text, word, {}, FALSE, {})]
       /\ UNCHANGED <<proc, layout, registry, derived, db, status>>
  ELSE /\ Return(t)
       /\ status' = Status("search", text, "already in network")
       /\ UNCHANGED <<proc, layout, registry, derived, db>>

ConcLookup(t, text) ==
  /\ app = "brd"
  /\ threads[t].pc = "idle"
  /\ isalpha(strip(text))
  /\ ConcLookupWord(t, text, title(strip(text)))

\* GLOBAL_WORDS.append(word_to_process_title)
ConcInsert(t) ==
  /\ app = "brd"
  /\ threads[t].pc = "insert"
  /\ Len(words) < MaxWords("brd")
  /\ words' = Append(words, threads[t].word)
  /\ Goto(t, "origin")
  /\ UNCHANGED <<proc, layout, origins, derived, db, status>>

\* GLOBAL_WORD_ORIGINS.setdefault(word_to_process_title, set()).add(...)
ConcOrigin(t) ==
  /\ app = "brd"
  /\ threads[t].pc = "origin"
  /\ origins' = AddOrigin(origins, threads[t].word, MANUAL_IMPORTED)
  /\ Goto(t, "layers")
  /\ UNCHANGED <<proc, layout, words, derived, db, status>>

\* initialize_graph_data(GLOBAL_WORDS) up to step 1: the default origins and
\* GLOBAL_LAYERS of the list as it is now
ConcRebuildLayers(t) ==
  /\ app = "brd"
  /\ threads[t].pc = "layers"
  /\ origins' = DefaultOrigins(origins, words, MANUAL_IMPORTED)
  /\ layers' = BuildLayers("brd", words)
  /\ Goto(t, "graph")
  /\ UNCHANGED <<proc, layout, words, shared, nodes, edges, pos, db, status>>

\* steps 2 to 4 of initialize_graph_data and the answer
ConcRebuildGraph(t) ==
  /\ app = "brd"
  /\ threads[t].pc = "graph"
  /\ nodes' = BuildNodes(words)
  /\ edges' = BuildEdges("brd", layers)
  /\ pos' = BrdLayout(words, BuildNodes(words), pos)
  /\ status' = Status("search", threads[t].text, "added to network")
  /\ Return(t)
  /\ UNCHANGED <<proc, layout, registry, layers, shared, db>>

\* add_or_update_word_in_db(word, [origin]) up to cursor.fetchone()
ConcSelect(t, word, origin) ==
  /\ app = "v21"
  /\ threads[t].pc = "idle"
  /\ LetterCount(word) >= 4
  /\ threads' = [threads EXCEPT ![t] =
                   Frame("write", "", word, {origin}, word \in DOMAIN db,
                         IF word \in DOMAIN db THEN db[word] ELSE {})]
  /\ UNCHANGED <<proc, layout, registry, derived, db, status>>

\* the table and the result of the UPDATE or the INSERT of frame f and the
\* commit: value is the primary key, so the INSERT of a value that another
\* connection has inserted meanwhile raises sqlite3.IntegrityError
ConcWritten(d, f) ==
  IF f.found
  THEN [db |-> [d EXCEPT ![f.word] = f.existing \cup f.origin_list], ret |-> TRUE]
  ELSE IF f.word \in DOMAIN d THEN [db |-> d, ret |-> FALSE]
  ELSE [db |-> Upsert(d, f.word, f.origin_list), ret |-> TRUE]

ConcWrite(t) ==
  /\ app = "v21"
  /\ threads[t].pc = "write"
  /\ db' = ConcWritten(db, threads[t]).db
  /\ status' = Status("add", threads[t].word,
                      BoolStr(ConcWritten(db, threads[t]).ret))
  /\ Return(t)
  /\ UNCHANGED <<proc, layout, registry, derived>>

InitConc ==
  /\ Start
  /\ app \in {"brd", "v21"}
  /\ threads = [t \in Threads |-> IdleFrame]

NextConc ==
  \/ \E t \in Threads, text \in ConcTexts : ConcLookup(t, text)
  \/ \E t \in Threads : ConcInsert(t)
  \/ \E t \in Threads : ConcOrigin(t)
  \/ \E t \in Threads : ConcRebuildLayers(t)
  \/ \E t \in Threads : ConcRebuildGraph(t)
  \/ \E t \in Threads, word \in ConcWords, origin \in ConcOrigins : ConcSelect(t, word, origin)
  \/ \E t \in Threads : ConcWrite(t)

SpecConc == InitConc /\ [][NextConc]_vars

-----------------------------------------------------------------------------
(* delete_word_from_db and add_or_update_word_in_db called one at a time *)

\* words and origins of the calls
CallWords == {"Snaeb", "That", "Love", "Lit"}
CallOrigins == {SEARCH, USER_FEEDBACK}

\* the table after the call and its result as the answer
CallDone(op, word, r) ==
  /\ db' = r.db
  /\ status' = Status(op, word, BoolStr(r.ret))
  /\ UNCHANGED <<proc, layout, registry, derived, threads>>

AddWordCall(word, origin) ==
  /\ app = "v21"
  /\ CallDone("add", word, add_or_update_word_in_db(db, word, {origin}))

DeleteWordCall(word) ==
  /\ app = "v21"
  /\ CallDone("delete", word, delete_word_from_db(db, word))

InitRemove ==
  /\ Init
  /\ app = "v21"

NextRemove ==
  \/ \E word \in CallWords, origin \in CallOrigins : AddWordCall(word, origin)
  \/ \E word \in CallWords : DeleteWordCall(word)

SpecRemove == InitRemove /\ [][NextRemove]_vars

-----------------------------------------------------------------------------
(* beans_resonance_dash.py: build_graph_figure and the view it hands over *)

\* a view query: the values of the controls of the page. A filter that is
\* not set is an empty list, set or string; a number input holds at most one
\* number
ViewState(selected_layers, highlight_word, visibility_options, words_filter,
          source_filter, node_layers, number, conn_number, conn_layers) ==
  [selected_layers |-> selected_layers,
   highlight_word |-> highlight_word,
   visibility_options |-> visibility_options,
   words_filter |-> words_filter,
   source_filter |-> source_filter,
   node_layers |-> node_layers,
   number |-> number,
   conn_number |-> conn_number,
   conn_layers |-> conn_layers]

\* GLOBAL_EDGES_BY_LAYER.get(layer, [])
EdgesGet(es, layer) == IF layer \in DOMAIN es THEN es[layer] ELSE <<>>

\* GLOBAL_LAYERS.get(layer, {})
LayersGet(ls, layer) == IF layer \in DOMAIN ls THEN ls[layer] ELSE <<>>

\* the edges of the selected layers
SelectedEdges(es, selected_layers) ==
  UNION {Range(EdgesGet(es, l)) : l \in Range(selected_layers)}

\* for u, v, val in the edges: if u in S: add v; elif v in S: add u
NeighboursOf(es, selected_layers, S) ==
  {e[2] : e \in {x \in SelectedEdges(es, selected_layers) : x[1] \in S}}
    \cup {e[1] : e \in {x \in SelectedEdges(es, selected_layers) : x[1] \notin S /\ x[2] \in S}}

\* 1. filter graph by words: the chosen words and their direct neighbours
FilterByWords(es, draw, v) ==
  IF v.words_filter = {} THEN draw
  ELSE draw \cap (v.words_filter \cup NeighboursOf(es, v.selected_layers, v.words_filter))

\* 2. filter graph by markdown source
FilterBySource(org, draw, v) ==
  IF v.source_filter = {} THEN draw
  ELSE draw \cap {w \in DOMAIN org : org[w] \cap v.source_filter # {}}

\* 3. filter nodes by resonance layers: the words of a group of two or more
FilterByNodeLayers(ls, draw, v) ==
  IF v.node_layers = {} THEN draw
  ELSE draw \cap {w \in draw :
                   \E l \in v.node_layers :
                     \E k \in 1..Len(LayersGet(ls, l)) :
                       /\ Len(LayersGet(ls, l)[k].group) > 1
                       /\ InSeq(w, LayersGet(ls, l)[k].group)}

\* the filter had it looked at the selected layers only
FilterByNumberSelected(a, draw, v) ==
  IF v.number = {} THEN draw
  ELSE {w \in draw : \E l \in Range(v.selected_layers) \cap LayerSet(a) : Calc(l, w) \in v.number}

\* 4. filter nodes by resonance value: some function of CALC_FUNCS gives it
FilterByNumber(a, draw, v) ==
  IF v.number = {} THEN draw
  ELSE {w \in draw : \E l \in LayerSet(a) : Calc(l, w) \in v.number}

\* nodes_to_draw of beans_resonance_dash.py
BrdNodesToDraw(ns, es, ls, org, v) ==
  FilterByNumber("brd",
    FilterByNodeLayers(ls,
      FilterBySource(org,
        FilterByWords(es, Range(ns), v), v), v), v)

\* 'fade_unconnected' in visibility_options and highlight_word
Fading(v) == "fade_unconnected" \in v.visibility_options /\ v.highlight_word # ""

\* nodes_to_render_fully: with fading, the highlighted word and the ends in
\* nodes_to_draw of its edges in the selected layers
RenderFully(es, draw, v) ==
  IF ~Fading(v) THEN draw
  ELSE {v.highlight_word}
         \cup {e[2] : e \in {x \in SelectedEdges(es, v.selected_layers) :
                               x[1] = v.highlight_word /\ x[2] \in draw}}
         \cup {e[1] : e \in {x \in SelectedEdges(es, v.selected_layers) :
                               x[1] # v.highlight_word /\ x[2] = v.highlight_word /\ x[1] \in draw}}

\* the test had it asked for one end of the edge only
EndsDrawnEither(e, draw) == e[1] \in draw \/ e[2] \in draw

\* if a not in nodes_to_draw or b not in nodes_to_draw: continue
EndsDrawn(e, draw) == e[1] \in draw /\ e[2] \in draw

\* the connection filter had it been applied to the edges of every layer
ConnKeptEveryLayer(layer, e, v) ==
  ~(v.conn_number # {} /\ v.conn_layers # {} /\ e[3] \notin v.conn_number)

\* the numerical connection filter: with a value and layers set, an edge of
\* one of these layers is skipped if its value is another
ConnKept(layer, e, v) ==
  ~(v.conn_number # {} /\ v.conn_layers # {} /\ layer \in v.conn_layers
     /\ e[3] \notin v.conn_number)

\* the tests an edge of a selected layer passes to be drawn
EdgeDrawn(layer, e, draw, fully, v) ==
  /\ EndsDrawn(e, draw)
  /\ ConnKept(layer, e, v)
  /\ ~("show_prime_only" \in v.visibility_options /\ ~is_prime(e[3]))
  /\ ~(Fading(v) /\ ~(/\ e[1] \in fully
                       /\ e[2] \in fully
                       /\ v.highlight_word \in {e[1], e[2]}))

\* the edges of one layer as lines <<layer, a, b, val>>
Lines(layer, es) == [m \in 1..Len(es) |-> <<layer, es[m][1], es[m][2], es[m][3]>>]

RECURSIVE BrdEdgesDrawn(_, _, _, _, _)
\* for layer in selected_layers: the edges of the layer that are drawn
BrdEdgesDrawn(sel, es, draw, fully, v) ==
  IF sel = <<>> THEN <<>>
  ELSE Lines(Head(sel),
             SelectSeq(EdgesGet(es, Head(sel)),
                       LAMBDA e : EdgeDrawn(Head(sel), e, draw, fully, v)))
         \o BrdEdgesDrawn(Tail(sel), es, draw, fully, v)

\* is_edge_highlighted where the trace of (layer, val) is added: the loop
\* over the pairs has ended, and the name holds the answer for the last pair
TraceHighlighted(line, lines, v) ==
  LET last == CHOOSE m \in 1..Len(lines) :
                /\ lines[m][1] = line[1] /\ lines[m][4] = line[4]
                /\ \A k \in (m + 1)..Len(lines) :
                     ~(lines[k][1] = line[1] /\ lines[k][4] = line[4])
  IN  v.highlight_word # "" /\ v.highlight_word \in {lines[last][2], lines[last][3]}

\* line_width and line_color of the trace that holds the line; "layer" is
\* the shade of the colour of the layer
BrdLineAttr(line, lines, v) ==
  [width |-> IF TraceHighlighted(line, lines, v) THEN 7
             ELSE IF is_prime(line[4]) /\ line[1] # "Binary Sum" THEN 5 ELSE 3,
   color |-> IF TraceHighlighted(line, lines, v) THEN "gold"
             ELSE IF is_prime(line[4]) /\ line[1] # "Binary Sum" THEN "gold" ELSE "layer"]

\* the attributes of the lines drawn, line by line
BrdAttrs(lines, v) == [m \in 1..Len(lines) |-> BrdLineAttr(lines[m], lines, v)]

\* what build_graph_figure draws for nodes_to_draw = draw and the edges
\* lines, the nodes whose marker_opacity is 1.0, and the status line of the
\* numerical filter
BrdDrawnLines(draw, fully, lines, v) ==
  [nodes |-> draw,
   fully |-> IF Fading(v) THEN draw \cap fully ELSE draw,
   edges |-> lines,
   attrs |-> BrdAttrs(lines, v),
   reason |-> IF v.number # {} /\ draw = {}
              THEN "No nodes match this value in the current view." ELSE "",
   raised |-> FALSE]

BrdDrawn(es, draw, v) ==
  BrdDrawnLines(draw, RenderFully(es, draw, v),
                IF "hide_all" \in v.visibility_options THEN <<>>
                ELSE BrdEdgesDrawn(v.selected_layers, es, draw, RenderFully(es, draw, v), v),
                v)

\* build_graph_figure(...) on the state of the engine
BrdFigure(ns, es, ls, org, v) == BrdDrawn(es, BrdNodesToDraw(ns, es, ls, org, v), v)

\* a request that only changes a control of the page: no branch of
\* update_output writes the registry, and the figure is built from it
BrdRender(v) ==
  /\ app = "brd"
  /\ figure' = [query |-> v, out |-> BrdFigure(nodes, edges, layers, origins, v)]
  /\ status' = Status("view", "", "")
  /\ UNCHANGED <<app, hashSeed, layout, registry, derived, db, threads>>

-----------------------------------------------------------------------------
(* grok_dash.py: build_graph_figure and the view part of update_app *)

\* a view query of grok_dash.py: the controls of its page; resonance_filter
\* holds at most one <<layer, val>>
GrokViewState(selected_layers, highlight_word, source_filter, number, prime_filter,
              resonance_filter, word_phrase_filter, report_layer_filter) ==
  [selected_layers |-> selected_layers,
   highlight_word |-> highlight_word,
   source_filter |-> source_filter,
   number |-> number,
   prime_filter |-> prime_filter,
   resonance_filter |-> resonance_filter,
   word_phrase_filter |-> word_phrase_filter,
   report_layer_filter |-> report_layer_filter]

\* the layers that the number and prime filters leave out
UNFILTERED_LAYERS == {"Love Resonance", "Prime Gematria"}

\* the word/phrase filter
FilterByKind(draw, v) ==
  CASE v.word_phrase_filter = "words" -> {n \in draw : ~HasSpace(n)}
    [] v.word_phrase_filter = "phrases" -> {n \in draw : HasSpace(n)}
    [] OTHER -> draw

\* the number filter had it asked every layer of CALC_FUNCS
GrokFilterByNumberAll(ws, draw, v) ==
  IF v.number = {} THEN draw
  ELSE draw \cap {w \in Range(ws) : \E l \in LayerSet("grok") : Calc(l, w) \in v.number}

\* if number_filter is not None: the words that a layer other than Love
\* Resonance and Prime Gematria gives the number
GrokFilterByNumber(ws, draw, v) ==
  IF v.number = {} THEN draw
  ELSE draw \cap {w \in Range(ws) :
                   \E l \in LayerSet("grok") \ UNFILTERED_LAYERS : Calc(l, w) \in v.number}

\* if prime_filter: the words that such a layer gives a prime
GrokFilterByPrime(ws, draw, v) ==
  IF ~v.prime_filter THEN draw
  ELSE draw \cap {w \in Range(ws) :
                   \E l \in LayerSet("grok") \ UNFILTERED_LAYERS : is_prime(Calc(l, w))}

\* if resonance_filter: the group of (layer, val)
GrokFilterByResonance(ls, draw, v) ==
  IF v.resonance_filter = {} THEN draw
  ELSE draw \cap {w \in draw :
                   \E r \in v.resonance_filter :
                     \E k \in 1..Len(LayersGet(ls, r[1])) :
                       /\ LayersGet(ls, r[1])[k].val = r[2]
                       /\ InSeq(w, LayersGet(ls, r[1])[k].group)}

\* nodes_to_draw of grok_dash.py
GrokNodesToDraw(ws, ns, ls, org, v) ==
  GrokFilterByResonance(ls,
    GrokFilterByPrime(ws,
      GrokFilterByNumber(ws,
        FilterBySource(org, FilterByKind(Range(ns), v), v), v), v), v)

\* an edge of a selected layer is drawn if both its ends are and, with a
\* highlighted word, that word is one of them
GrokEdgeDrawn(e, draw, v) ==
  /\ EndsDrawn(e, draw)
  /\ v.highlight_word # "" => v.highlight_word \in {e[1], e[2]}

RECURSIVE GrokEdgesDrawn(_, _, _, _)
GrokEdgesDrawn(sel, es, draw, v) ==
  IF sel = <<>> THEN <<>>
  ELSE Lines(Head(sel), SelectSeq(EdgesGet(es, Head(sel)), LAMBDA e : GrokEdgeDrawn(e, draw, v)))
         \o GrokEdgesDrawn(Tail(sel), es, draw, v)

\* the ends of the edges of the selected layers that the highlighted word
\* begins
SecondEnds(es, v) ==
  {e[2] : e \in {x \in SelectedEdges(es, v.selected_layers) : x[1] = v.highlight_word}}

\* nodes_to_render_fully: nodes_to_draw if not highlight_word else the word
\* and every v of an edge (u, v) of a selected layer with u == highlight_word
GrokRenderFully(es, draw, v) ==
  IF v.highlight_word = "" THEN draw ELSE {v.highlight_word} \cup SecondEnds(es, v)

\* color and width of the trace of one edge
GrokLineAttr(line, v) ==
  [width |-> IF v.highlight_word # "" /\ v.highlight_word \in {line[2], line[3]}
             THEN 7 ELSE 3,
   color |-> IF is_prime(line[4]) /\ line[1] # "Binary Sum" THEN "gold" ELSE "layer"]

GrokAttrs(lines, v) == [m \in 1..Len(lines) |-> GrokLineAttr(lines[m], v)]

\* the figure that update_app returns; with a highlighted word the modal
\* evaluates CALC_FUNCS[layer] for every report layer before the figure is
\* built, and a name that CALC_FUNCS lacks raises KeyError
GrokDrawnLines(draw, fully, lines, v) ==
  IF v.highlight_word # "" /\ ~(v.report_layer_filter \subseteq LayerSet("grok"))
  THEN [nodes |-> {}, fully |-> {}, edges |-> <<>>, attrs |-> <<>>, reason |-> "",
        raised |-> TRUE]
  ELSE [nodes |-> draw,
        fully |-> draw \cap fully,
        edges |-> lines,
        attrs |-> GrokAttrs(lines, v),
        reason |-> "",
        raised |-> FALSE]

GrokDrawn(es, draw, v) ==
  GrokDrawnLines(draw, GrokRenderFully(es, draw, v),
                 GrokEdgesDrawn(v.selected_layers, es, draw, v), v)

GrokFigure(ws, ns, es, ls, org, v) == GrokDrawn(es, GrokNodesToDraw(ws, ns, ls, org, v), v)

\* a request that only changes a control of the page other than the layout
GrokRender(v) ==
  /\ app = "grok"
  /\ figure' = [query |-> v, out |-> GrokFigure(words, nodes, edges, layers, origins, v)]
  /\ status' = Status("view", "", "")
  /\ UNCHANGED <<app, hashSeed, layout, registry, derived, db, threads>>

-----------------------------------------------------------------------------
(* gematria_dictionaryv2.1.py: the full report *)

\* is_prime of a value after the single-digit filter of the report
ReportPrime(val, filter_single_digit_primes) ==
  is_prime(val) /\ ~(filter_single_digit_primes /\ val < 10)

RECURSIVE PrimePairs(_, _, _, _, _)
\* for i, w1 in enumerate(words): for w2 in words[i+1:]: a connection if the
\* two values in the layer are equal and prime
PrimePairs(ws, layer, single, i, j) ==
  IF i > Len(ws) THEN <<>>
  ELSE IF j > Len(ws) THEN PrimePairs(ws, layer, single, i + 1, i + 2)
  ELSE (IF Calc(layer, ws[i]) = Calc(layer, ws[j]) /\ ReportPrime(Calc(layer, ws[i]), single)
        THEN <<(<<layer, ws[i], ws[j], Calc(layer, ws[i])>>)>>
        ELSE <<>>) \o PrimePairs(ws, layer, single, i, j + 1)

\* find_prime_connections(words, [layer], single): CALC_FUNCS[layer] raises
\* KeyError for a name it lacks as soon as there is a pair of words
find_prime_connections(ws, layer, single) ==
  IF layer \notin LayerSet("v21")
  THEN [raised |-> Len(ws) >= 2, connections |-> <<>>]
  ELSE [raised |-> FALSE, connections |-> PrimePairs(ws, layer, single, 1, 2)]

\* generate_full_report(layer, None, None): the prime connections and the
\* words reported; the section of a word evaluates CALC_FUNCS[layer] too
ReportOf(ws, layer, found) ==
  IF found.raised \/ (layer \notin LayerSet("v21") /\ ws # <<>>)
  THEN [nodes |-> {}, fully |-> {}, edges |-> <<>>, attrs |-> <<>>, reason |-> "",
        raised |-> TRUE]
  ELSE [nodes |-> Range(ws), fully |-> Range(ws), edges |-> found.connections,
        attrs |-> <<>>, reason |-> "", raised |-> FALSE]

\* the generate-report button: nothing is reloaded or rebuilt
V21Report(layer, single) ==
  /\ app = "v21"
  /\ figure' = [query |-> [layer |-> layer, single |-> single],
                out |-> ReportOf(words, layer, find_prime_connections(words, layer, single))]
  /\ status' = Status("report", layer, "")
  /\ UNCHANGED <<app, hashSeed, layout, registry, derived, db, threads>>

-----------------------------------------------------------------------------
(* Node colours *)

COLORSCALE ==
  <<"red", "orange", "yellow", "green", "cyan", "blue", "magenta", "pink", "lime">>

\* COLORSCALE[hash(name) % len(COLORSCALE)]
color_for_node(seed, name) == COLORSCALE[(StrHash(seed, name) % Len(COLORSCALE)) + 1]

\* the shared resonances that count for the colour of word
CountedFor(sh, word) ==
  {k \in 1..Len(sh) : sh[k][1] \notin UNFILTERED_LAYERS /\ InSeq(word, sh[k][3])}

RECURSIVE SumOver(_, _)
\* resonance_sum += val over the resonances ks
SumOver(sh, ks) ==
  IF ks = {} THEN 0
  ELSE LET k == CHOOSE k \in ks : TRUE IN sh[k][2] + SumOver(sh, ks \ {k})

\* (avg_resonance % 360) / 360.0 for avg_resonance = sum / count, as a
\* reduced fraction
Hue(sum, count) ==
  <<(sum % (360 * count)) \div Gcd(sum % (360 * count), 360 * count),
    (360 * count) \div Gcd(sum % (360 * count), 360 * count)>>

\* get_word_color(word): the hex colour is colorsys.hls_to_rgb of the hue
\* with fixed lightness and saturation, a function of the hue
get_word_color(sh, word) ==
  [hue |-> Hue(SumOver(sh, CountedFor(sh, word)),
               IF CountedFor(sh, word) = {} THEN 1 ELSE Cardinality(CountedFor(sh, word)))]

\* the colours had each node been given the colour of its place among the
\* nodes
NodeColorsByPlace(a, seed, ns, sh) ==
  [n \in Range(ns) |-> [name |-> COLORSCALE[(FirstIndex(ns, n) % Len(COLORSCALE)) + 1]]]

\* GLOBAL_NODE_COLORS as initialize_graph_data assigns it for the nodes ns
\* and the shared resonances sh
NodeColors(a, seed, ns, sh) ==
  [n \in Range(ns) |-> IF a = "brd" THEN [name |-> color_for_node(seed, n)]
                       ELSE get_word_color(sh, n)]

-----------------------------------------------------------------------------
(* View queries: the requests the model sends, and the specifications of   *)
(* the page controls and of the worked example                             *)

\* lists of the layer checklist; "Bogus" is no key of CALC_FUNCS
BrdSelections == {<<>>, <<"Simple">>, <<"Simple", "Qwerty">>, <<"Bogus">>}

\* a query that sets the layer checklist alone
Plain(sel) == ViewState(sel, "", {}, {}, {}, {}, {}, {}, {})

\* queries on the connection controls
BrdEdgeViews ==
  {ViewState(sel, "", vis, {}, {}, {}, {}, {}, {}) :
     sel \in BrdSelections, vis \in {{}, {"hide_all"}, {"show_prime_only"}}}
  \cup
  {ViewState(<<"Simple", "Qwerty">>, hl, vis, {}, {}, {}, {}, cn,
             IF cn = {} THEN {} ELSE {"Qwerty"}) :
     hl \in {"", "Beans"}, vis \in {{}, {"fade_unconnected"}}, cn \in {{}, {75}}}

\* queries on the node filters
BrdNodeViews ==
  {ViewState(<<"Simple", "Qwerty">>, "", {}, wf, sf, nl, {}, {}, {}) :
     wf \in {{}, {"Love"}}, sf \in {{}, {"fileA"}}, nl \in {{}, {"Qwerty"}}}
  \cup
  {ViewState(sel, "", vis, {}, {}, {}, num, {}, {}) :
     sel \in {<<>>, <<"Simple">>}, vis \in {{}, {"hide_all"}}, num \in {{0}, {41}, {48}, {54}}}

BrdViews == BrdEdgeViews \cup BrdNodeViews

GrokSelections == {<<>>, <<"Simple">>, <<"Simple", "Prime Gematria">>, <<"Bogus">>}

GrokViews ==
  {GrokViewState(sel, "", {}, num, FALSE, {}, "all", {"Simple"}) :
     sel \in GrokSelections, num \in {{}, {0}, {41}}}
  \cup
  {GrokViewState(<<"Simple">>, "Beans", {}, {}, FALSE, {}, "all", rl) :
     rl \in {{"Simple", "Qwerty"}, {"Bogus"}}}
  \cup
  {GrokViewState(<<"Simple">>, "", sf, {}, pf, rf, kind, {"Simple"}) :
     sf \in {{}, {MANUAL}}, pf \in BOOLEAN, rf \in {{}, {<<"Simple", 41>>}},
     kind \in {"all", "phrases"}}

\* values of the report layer control
ReportLayers == {"Simple", "Prime Gematria", "Bogus"}

\* the values of the layout toggle that the queries are mixed with
ViewLayouts == {"spiral", "circular"}

\* the words that are added between the queries
ViewAdds == {" Snaeb ", "Snaeb Love"}

InitView ==
  /\ Start
  /\ app \in {"brd", "grok", "v21"}
  /\ threads = NONE

NextView ==
  \/ \E text \in ViewAdds : BrdSearch(text)
  \/ \E text \in ViewAdds : GrokSearch(text)
  \/ \E text \in ViewAdds : V21Search(text)
  \/ \E text \in ViewAdds : V21Import(text)
  \/ \E lay \in ViewLayouts : GrokLayoutToggle(lay)
  \/ \E v \in BrdViews : BrdRender(v)
  \/ \E v \in GrokViews : GrokRender(v)
  \/ \E layer \in ReportLayers, single \in BOOLEAN : V21Report(layer, single)

SpecView == InitView /\ [][NextView]_vars

\* the registries that initialize_graph_data is started with in the example
ExampleRegistries == {<<"Beans", "Dream">>, <<"Beans", "Love">>, <<"Beans">>}

\* the words added in the example
ExampleAdds == {" Snaeb ", "Love", "dream"}

\* the queries of the example: the numerical filter alone
ExampleViews ==
  {ViewState(sel, "", {}, {}, {}, {}, num, {}, {}) :
     sel \in {<<>>, <<"Simple">>}, num \in {{}, {41}, {48}, {75}}}

InitExample ==
  /\ hashSeed = 0
  /\ status = Status("start", "", "")
  /\ \E ws \in ExampleRegistries : BrdInitWith(ws)
  /\ layout = ""
  /\ figure = NONE
  /\ threads = NONE

NextExample ==
  \/ \E text \in ExampleAdds : BrdSearch(text)
  \/ \E v \in ExampleViews : BrdRender(v)

SpecExample == InitExample /\ [][NextExample]_vars

-----------------------------------------------------------------------------
(* Export *)

RECURSIVE InsertSorted(_, _)
\* q with w put before the first entry greater than w
InsertSorted(q, w) ==
  IF q = <<>> THEN <<w>>
  ELSE IF StrLess(w, Head(q)) THEN <<w>> \o q
  ELSE <<Head(q)>> \o InsertSorted(Tail(q), w)

RECURSIVE SortedList(_)
\* sorted(q) for a list of strings: every entry of the list is kept
SortedList(q) == IF q = <<>> THEN <<>> ELSE InsertSorted(SortedList(Tail(q)), Head(q))

\* the export button of the four programs: the file holds
\* "\n".join(sorted(GLOBAL_WORDS)), here the list of its lines
Export ==
  /\ figure' = [query |-> "export", out |-> SortedList(words)]
  /\ status' = Status("export", "", "")
  /\ UNCHANGED <<app, hashSeed, layout, registry, derived, db, threads>>

\* the words added and the sentences judged between the exports
ExportAdds == {" Snaeb ", "love"}

InitExport ==
  /\ Start
  /\ threads = NONE

NextExport ==
  \/ \E text \in ExportAdds : BrdSearch(text)
  \/ \E text \in ExportAdds : GdSearch(text)
  \/ \E sentence \in Sentences("gd"), score \in {1, -1} : GdFeedback(sentence, score)
  \/ \E text \in ExportAdds : GrokSearch(text)
  \/ \E text \in ExportAdds : V21Import(text)
  \/ \E sentence \in Sentences("v21"), score \in {1, -1} : V21Feedback(sentence, score)
  \/ Export

SpecExport == InitExport /\ [][NextExport]_vars

-----------------------------------------------------------------------------
(* Submissions: the search box of the four programs *)

\* texts submitted: a short word, a phrase, a registered word in lower
\* case, a text with a digit, a new word
SubmitInputs == {"Lit", "Snaeb Love", "love", "Sn4eb", " Snaeb "}

\* the origin tag that the search box of variant a gives an item
SubmitOrigin(a) ==
  CASE a = "brd" -> MANUAL_IMPORTED
    [] a = "v21" -> SEARCH
    [] OTHER -> MANUAL

InitSubmit ==
  /\ Start
  /\ threads = NONE

NextSubmit ==
  \/ \E text \in SubmitInputs : BrdSearch(text)
  \/ \E text \in SubmitInputs : GdSearch(text)
  \/ \E text \in SubmitInputs : GrokSearch(text)
  \/ \E text \in SubmitInputs : V21Search(text)

SpecSubmit == InitSubmit /\ [][NextSubmit]_vars

-----------------------------------------------------------------------------
(* Properties of the Item Registry *)

\* the canonical identity of an entry: trimmed, case-insensitive
Identity(w) == lower(strip(w))

\* the positions of the list ws that hold an entry of identity id
EntriesOf(ws, id) == {i \in 1..Len(ws) : Identity(ws[i]) = id}

RECURSIVE Flatten(_)
\* the value lists of one layer, one after the other
Flatten(groups) ==
  IF groups = <<>> THEN <<>> ELSE Head(groups).group \o Flatten(Tail(groups))

\* the value lists of a layer hold every entry of ws, each once
PartitionOf(groups, ws) ==
  /\ Range(groups) = Range(ws)
  /\ \A i, j \in 1..Len(groups) : groups[i] = groups[j] => i = j

\* C1: in every reachable state, the start-up registry included, the Item
\* Registry (GLOBAL_WORDS) holds at most one entry per case-insensitive,
\* trimmed identity.
C1_IdentityUniqueness ==
  \A i, j \in 1..Len(words) : Identity(words[i]) = Identity(words[j]) => i = j

\* C3: for every layer, the groups of the Layer Index partition the Item
\* Registry: their union is the set of registered items and every registered
\* item is in exactly one value list, once.
C3_LayerPartition ==
  \A l \in DOMAIN layers : PartitionOf(Flatten(layers[l]), words)

\* the items and their origin sets: the table words in gematria_dictionaryv2.1.py,
\* GLOBAL_WORDS and GLOBAL_WORD_ORIGINS in the other variants
Registered == IF app = "v21" THEN DOMAIN db ELSE Range(words)
OriginSets == IF app = "v21" THEN db ELSE origins

\* the items that the upload of one file adds, each with the file name as
\* its origin
Offered(a, content) ==
  CASE a = "brd" -> TitleAll(FindWords3(lower(content)))
    [] a = "v21" -> TitleAll([i \in 1..Len(FindAposPhrases(content)) |->
                               strip(FindAposPhrases(content)[i])])
    [] OTHER -> TitleAll(SelectSeq(FindPhrases3(content), MatchLettersSpaces))

\* an add of item x with origin o to a registry that holds x's identity
\* leaves the number of entries of that identity as it is and makes the
\* origin set of each such entry its former origin set united with o
Merged(x, o) ==
  \A w \in Registered :
    Identity(w) = Identity(x) =>
      /\ w \in Registered'
      /\ Cardinality({v \in Registered' : Identity(v) = Identity(x)})
           = Cardinality({v \in Registered : Identity(v) = Identity(x)})
      /\ OriginSets'[w] = OriginSets[w] \cup {o}

\* C2: an add whose identity is already registered leaves the item count
\* unchanged and makes the item's origin set its previous origin set united
\* with the new origin: add("Love", "fileA") then add("love", "fileB") leaves
\* one item with the origins {"fileA", "fileB"}.
C2_MergeNotReplace ==
  [][\A f \in Files :
       status'.op = "upload" /\ status'.input = <<f>> =>
         \A k \in 1..Len(Offered(app, f.content)) :
           Merged(Offered(app, f.content)[k], f.filename)]_vars

\* every request has returned
Quiet == \A t \in Threads : threads[t].pc = "idle"

\* C4: when add calls run concurrently, no interleaving of their steps
\* (lookup, insert, origin update, rebuild) leaves a state that violates
\* identity uniqueness for the texts they add or the per-layer partition.
C4_ConcurrentAdds ==
  Quiet =>
    /\ \A text \in ConcTexts : Cardinality(EntriesOf(words, Identity(text))) <= 1
    /\ C3_LayerPartition

\* a text that the letters/spaces-only validation refuses: empty once
\* trimmed, or with a character that is neither a letter nor a space
FailsValidation(text) ==
  \/ strip(text) = ""
  \/ \E i \in 1..Len(strip(text)) :
       ~(IsLetter(Ch(strip(text), i)) \/ IsSpace(Ch(strip(text), i)))

\* the answers that report a rejection
Rejections == {"Please enter a valid word (letters only).", "Invalid word/phrase"}

Protected(o) == o # USER_FEEDBACK

\* C6: an item leaves the Item Registry only through an explicit removal
\* (negative feedback) and only when none of its origins is protected; no
\* other operation deletes an item.
C6_DeletionOnlyUnprotected ==
  [][\A w \in Range(words) \ Range(words') :
       /\ status'.op = "thumbs-down"
       /\ \A o \in origins[w] : ~Protected(o)]_vars

\* C7, the reading with a reporting result: remove(item) deletes the item only if it is present; for an
\* absent item it returns false and leaves the registry unchanged; it returns
\* true only when an item was deleted.
C7_RemoveReportsDeletion ==
  [][status'.op = "delete" =>
       /\ db' = [k \in DOMAIN db \ {status'.input} |-> db[k]]
       /\ status'.msg = BoolStr(status'.input \in DOMAIN db)]_vars

\* C7, the reading the code supports: delete_word_from_db(word) deletes the row of word if there
\* is one and leaves the table and the loaded registry as they are if there
\* is none; it returns True in both cases.
C7_RemoveAbsentIsNoOp ==
  [][status'.op = "delete" =>
       /\ db' = [k \in DOMAIN db \ {status'.input} |-> db[k]]
       /\ (status'.input \notin DOMAIN db => db' = db)
       /\ status'.msg = "True"
       /\ UNCHANGED <<registry, derived>>]_vars

\* delete_word_from_db of a word that no add puts into the table (it is too
\* short) has returned True
C7_Witness ==
  /\ status = Status("delete", "Lit", "True")
  /\ "Lit" \notin DOMAIN db
  /\ Cardinality(DOMAIN db) > Len(WORDS("v21"))

\* C8: position stability: adding one new item x and rebuilding leaves the
\* position of every item that was placed as it was and gives x a position.
C8_PositionStability ==
  [][(/\ app \in {"brd", "grok"}
      /\ Range(words) \subseteq Range(words')
      /\ Cardinality(Range(words') \ Range(words)) = 1) =>
       /\ \A n \in DOMAIN pos : n \in DOMAIN pos' /\ pos'[n] = pos[n]
       /\ Range(words') \subseteq DOMAIN pos']_vars

\* the edges of layer l generated for the value val
EdgesOf(l, val) == SelectSeq(edges[l], LAMBDA e : e[3] = val)

\* the edges es are one per unordered pair of distinct members of group
OnePerPair(group, es) ==
  /\ Len(es) = (Len(group) * (Len(group) - 1)) \div 2
  /\ \A i, j \in 1..Len(group) :
       i < j => Cardinality({m \in 1..Len(es) : {es[m][1], es[m][2]} = {group[i], group[j]}}) = 1
  /\ \A m \in 1..Len(es) : es[m][1] # es[m][2]

\* C9: for every group of size k under a (layer, value), exactly k(k-1)/2
\* edges are generated for that (layer, value): one per unordered pair of
\* distinct members, no pair twice and no self-loop.
C9_EdgeGeneration ==
  app \in {"brd", "grok"} =>
    \A l \in DOMAIN layers :
      \A k \in 1..Len(layers[l]) :
        OnePerPair(layers[l][k].group, EdgesOf(l, layers[l][k].val))

\* an added word has joined a group of three or more, which has its edges
C9_Witness ==
  /\ app = "grok"
  /\ status.op = "search"
  /\ \E l \in DOMAIN layers :
       \E k \in 1..Len(layers[l]) :
         /\ Len(layers[l][k].group) >= 3
         /\ Len(EdgesOf(l, layers[l][k].val)) >= 3

\* C10: the materialized resonance groups are exactly the (layer, value,
\* items) entries of the Layer Index with at least 2 items: each of them is
\* materialized, once, and no group with fewer than 2 items is.
C10_SharedResonances ==
  app \in {"gd", "grok", "v21"} =>
    /\ \A l \in DOMAIN layers :
         \A k \in 1..Len(layers[l]) :
           Len(layers[l][k].group) >= 2
             <=> \E m \in 1..Len(shared) :
                   shared[m] = <<l, layers[l][k].val, layers[l][k].group>>
    /\ \A m \in 1..Len(shared) :
         /\ Len(shared[m][3]) >= 2
         /\ \E k \in 1..Len(layers[shared[m][1]]) :
              /\ layers[shared[m][1]][k].val = shared[m][2]
              /\ layers[shared[m][1]][k].group = shared[m][3]
         /\ \A n \in 1..Len(shared) : shared[n] = shared[m] => n = m

\* an upload has left materialized groups next to groups of one item
C10_Witness ==
  /\ app = "v21"
  /\ status.op = "upload"
  /\ Len(shared) >= 2
  /\ \E l \in DOMAIN layers :
       \E k \in 1..Len(layers[l]) : Len(layers[l][k].group) = 1

-----------------------------------------------------------------------------
(* Graph construction *)

\* an edge of some layer touches node n
Touched(n) ==
  \E l \in DOMAIN edges :
    \E m \in 1..Len(edges[l]) : n \in {edges[l][m][1], edges[l][m][2]}

\* C11: after a build the node set of the graph equals the Item Registry:
\* every registered item is a node exactly once, also an item in no
\* resonance group, and no node is anything but a registered item.
C11_NodesAreItems ==
  app \in {"brd", "grok"} =>
    /\ Range(nodes) = Range(words)
    /\ \A i, j \in 1..Len(nodes) : nodes[i] = nodes[j] => i = j

\* a search has added an item and the graph holds a node that no edge touches
C11_Witness ==
  /\ app \in {"brd", "grok"}
  /\ status.op = "search"
  /\ Len(words) > Len(WORDS(app))
  /\ \E n \in Range(nodes) : ~Touched(n)
  /\ \E n \in Range(nodes) : Touched(n)

\* layer l holds an edge between a and b labelled with the value of a in l
Joined(l, a, b) ==
  \E m \in 1..Len(edges[l]) :
    /\ {edges[l][m][1], edges[l][m][2]} = {a, b}
    /\ edges[l][m][3] = Calc(l, a)

\* the items a, b share their value in layer l
Resonate(l, a, b) == a # b /\ Calc(l, a) = Calc(l, b)

\* C12: edges are not de-duplicated across layers: two items that share a
\* value in two different layers have one edge in each of the two layers,
\* each labelled with its own (layer, value).
C12_NoEdgeDedupAcrossLayers ==
  app \in {"brd", "grok"} =>
    \A l1, l2 \in DOMAIN edges :
      \A a, b \in Range(nodes) :
        (l1 # l2 /\ Resonate(l1, a, b) /\ Resonate(l2, a, b))
          => Joined(l1, a, b) /\ Joined(l2, a, b)

\* a search has added an item; two items share their value in two layers,
\* their values there differ, and each of the two layers joins them
C12_Witness ==
  /\ app \in {"brd", "grok"}
  /\ status.op = "search"
  /\ Len(words) > Len(WORDS(app))
  /\ \E l1, l2 \in DOMAIN edges :
       \E a, b \in Range(nodes) :
         /\ l1 # l2
         /\ Resonate(l1, a, b)
         /\ Resonate(l2, a, b)
         /\ Calc(l1, a) # Calc(l2, a)
         /\ Joined(l1, a, b)
         /\ Joined(l2, a, b)

\* what a build leaves for the registry ws: initialize_graph_data,
\* initialize_data, rebuild_gematria_cache
Built(a, seed, ws, ls) ==
  [words |-> ws,
   layers |-> ls,
   shared |-> IF a = "brd" THEN NONE ELSE BuildShared(a, ls),
   nodes |-> IF a \in {"brd", "grok"} THEN BuildNodes(ws) ELSE NONE,
   edges |-> IF a \in {"brd", "grok"} THEN BuildEdges(a, ls) ELSE NONE]

BuiltFrom(a, seed, ws) == Built(a, seed, ws, BuildLayers(a, ws))

Rebuild(a, seed, ws) ==
  BuiltFrom(a, seed, IF a \in {"gd", "grok"} THEN TitleList(seed, ws) ELSE ws)

\* the build of what the build b left
Again(a, seed, b) == Rebuild(a, seed, b.words) = b

\* C13: idempotence: a second rebuild of the Layer Index, the resonance
\* groups and the graph from the registry that a rebuild left yields the same
\* groups with the same member order, the same nodes and the same edge list.
C13_RebuildIdempotent == Again(app, hashSeed, Rebuild(app, hashSeed, words))


-----------------------------------------------------------------------------
(* The worked example *)

\* the value under which layer l files the item w
ValueIn(l, w) ==
  LET k == CHOOSE k \in 1..Len(layers[l]) : w \in Range(layers[l][k].group)
  IN  layers[l][k].val

\* the resonance groups of layer l as the triples (layer, value, members)
GroupsOf(l) ==
  {<<l, layers[l][k].val, layers[l][k].group>> :
     k \in {k \in 1..Len(layers[l]) : Len(layers[l][k].group) > 1}}

\* C14 as stated: for the registry ["Beans", "Dream"] under the Simple
\* encoding, Beans evaluates to 48 and Dream to 41; the values are distinct,
\* so the Simple layer has zero edges.
C14_Stated ==
  words = <<"Beans", "Dream">> =>
    /\ ValueIn("Simple", "Beans") = 48
    /\ ValueIn("Simple", "Dream") = 41
    /\ edges["Simple"] = <<>>

\* C14: for the registry ["Beans", "Dream"] under the Simple encoding
\* (A=1..Z=26), Beans evaluates to 41 and Dream to 41; the values are equal,
\* so the Simple layer has exactly one edge, between Beans and Dream.
C14_BeansDream ==
  words = <<"Beans", "Dream">> =>
    /\ ValueIn("Simple", "Beans") = 41
    /\ ValueIn("Simple", "Dream") = 41
    /\ edges["Simple"] = <<(<<"Beans", "Dream", 41>>)>>

\* the search box has added Dream to the registry ["Beans"] and the build
\* has run on ["Beans", "Dream"]
C14_Witness ==
  /\ words = <<"Beans", "Dream">>
  /\ status.op = "search"
  /\ status.msg = "added to network"
  /\ Len(edges["Simple"]) = 1

\* C15 as stated: adding "Snaeb" to the registry ["Beans", "Dream"] creates
\* the resonance group (Simple, 48, ["Beans", "Snaeb"]) and exactly one edge
\* in the Simple layer, between Beans and Snaeb.
C15_Stated ==
  words = <<"Beans", "Dream", "Snaeb">> =>
    /\ <<"Simple", 48, <<"Beans", "Snaeb">> >> \in GroupsOf("Simple")
    /\ Len(edges["Simple"]) = 1
    /\ {edges["Simple"][1][1], edges["Simple"][1][2]} = {"Beans", "Snaeb"}

\* C15: adding "Snaeb" to the registry ["Beans", "Dream"] leaves the one
\* resonance group (Simple, 41, ["Beans", "Dream", "Snaeb"]) and exactly three
\* edges in the Simple layer: Beans-Dream, Beans-Snaeb and Dream-Snaeb.
C15_SnaebJoinsGroup ==
  words = <<"Beans", "Dream", "Snaeb">> =>
    /\ GroupsOf("Simple") = {<<"Simple", 41, <<"Beans", "Dream", "Snaeb">> >>}
    /\ edges["Simple"] = <<(<<"Beans", "Dream", 41>>), (<<"Beans", "Snaeb", 41>>),
                           (<<"Dream", "Snaeb", 41>>)>>

\* the search box has added Snaeb to the registry ["Beans", "Dream"]
C15_Witness ==
  /\ words = <<"Beans", "Dream", "Snaeb">>
  /\ status = Status("search", " Snaeb ", "added to network")
  /\ Len(edges["Simple"]) = 3

\* the view last drawn answers a query that sets the numerical filter to n
\* and no other filter
NumberAlone(n) ==
  /\ status.op = "view"
  /\ figure.query.number = {n}
  /\ figure.query.words_filter = {}
  /\ figure.query.source_filter = {}
  /\ figure.query.node_layers = {}

\* C16 as stated: filtering the three-item registry ["Beans", "Dream",
\* "Snaeb"] with numerical_filter_value = 48 (no other filter set) returns
\* the visible node set {"Beans", "Snaeb"}.
C16_Stated ==
  (words = <<"Beans", "Dream", "Snaeb">> /\ NumberAlone(48)) =>
    figure.out.nodes = {"Beans", "Snaeb"}

\* C16: filtering the three-item registry ["Beans", "Dream", "Snaeb"] with
\* numerical_filter_value = 41 (no other filter set) returns the visible node
\* set {"Beans", "Dream", "Snaeb"}; with numerical_filter_value = 48 it
\* returns no visible node.
C16_FilterByValue ==
  words = <<"Beans", "Dream", "Snaeb">> =>
    /\ NumberAlone(41) => figure.out.nodes = {"Beans", "Dream", "Snaeb"}
    /\ NumberAlone(48) => figure.out.nodes = {}

\* the three-item registry has been filtered by 41 with no layer selected
C16_Witness ==
  /\ words = <<"Beans", "Dream", "Snaeb">>
  /\ NumberAlone(41)
  /\ figure.query.selected_layers = <<>>
  /\ figure.out.nodes = {"Beans", "Dream", "Snaeb"}

-----------------------------------------------------------------------------
(* The Visible View *)

\* the nodes that survive the filters of the last query other than the
\* numerical one
Survivors ==
  IF app = "brd"
  THEN BrdNodesToDraw(nodes, edges, layers, origins, [figure.query EXCEPT !.number = {}])
  ELSE GrokNodesToDraw(words, nodes, layers, origins, [figure.query EXCEPT !.number = {}])

\* the last query of a graph page set the numerical filter and, in
\* grok_dash.py, none of the filters that run after it
NumberFiltered ==
  /\ app \in {"brd", "grok"}
  /\ status.op = "view"
  /\ figure.query.number # {}
  /\ ~figure.out.raised
  /\ app = "grok" => ~figure.query.prime_filter /\ figure.query.resonance_filter = {}

\* some encoding among ls evaluates to the filter value for w
Matches(ls, w) == \E l \in ls : Calc(l, w) \in figure.query.number

\* C17 as stated: when a numeric value filter is set, a node that survived
\* the earlier filters stays visible if and only if at least one registered
\* encoding (any of them, not only the selected layers) evaluates to exactly
\* the filter value for that item.
C17_Stated ==
  NumberFiltered =>
    figure.out.nodes = {w \in Survivors : Matches(LayerSet(app), w)}

\* C17: when a numeric value filter is set, a node that survived the earlier
\* filters stays visible if and only if at least one registered encoding (any
\* of them, not only the selected layers) evaluates to exactly the filter
\* value for that item; grok_dash.py leaves the encodings Love Resonance and
\* Prime Gematria out of this test.
C17_NumberFilter ==
  NumberFiltered =>
    figure.out.nodes =
      {w \in Survivors :
         Matches(IF app = "grok" THEN LayerSet(app) \ UNFILTERED_LAYERS ELSE LayerSet(app), w)}

\* a filter value that no selected layer gives but another encoding does
\* has kept a node in beans_resonance_dash.py, or grok_dash.py has dropped a
\* node that only Prime Gematria gives the value
C17_Witness ==
  /\ NumberFiltered
  /\ \/ /\ app = "brd"
        /\ \E w \in figure.out.nodes : ~Matches(Range(figure.query.selected_layers), w)
     \/ /\ app = "grok"
        /\ \E w \in Survivors \ figure.out.nodes : Matches({"Prime Gematria"}, w)

\* the last query named a layer that CALC_FUNCS of the variant lacks: in the
\* layer checklist of a graph page, in the report layers of the modal of
\* grok_dash.py, or as the report layer of gematria_dictionaryv2.1.py
UnknownLayerQueried ==
  \/ /\ app \in {"brd", "grok"}
     /\ status.op = "view"
     /\ \/ ~(Range(figure.query.selected_layers) \subseteq LayerSet(app))
        \/ /\ app = "grok"
           /\ figure.query.highlight_word # ""
           /\ ~(figure.query.report_layer_filter \subseteq LayerSet(app))
  \/ /\ app = "v21"
     /\ status.op = "report"
     /\ figure.query.layer \notin LayerSet(app)

\* C18: a view/filter query that references a layer name that is not a
\* registered encoding returns an empty Visible View together with a
\* descriptive reason and does not raise.
C18_UnknownLayerAnswered ==
  UnknownLayerQueried =>
    /\ ~figure.out.raised
    /\ figure.out.nodes = {}
    /\ figure.out.edges = <<>>
    /\ figure.out.reason # ""

\* the state of the engine: the Item Registry with its origin sets and the
\* stored table, the Layer Index, the resonance groups, the graph and the
\* positions of its nodes
engine == <<words, origins, db, layers, shared, nodes, edges, pos>>

\* this step answers a request for output: a figure for a view state or a
\* layout, a report, or the individual report of the search box of
\* gematria_dictionaryv2.1.py
SinkStep ==
  \/ status'.op \in {"view", "report", "layout"}
  \/ app = "v21" /\ status'.op = "search" /\ status'.msg = "Added (or updated origin)"

\* C19: producing any output for the render/report sink (the graph with
\* layout and colors for a layer selection, the list of resonance groups for
\* a report, or the Visible View for a view state) is read-only: it leaves
\* the Item Registry, origin sets, Layer Index, resonance groups, graph,
\* layout and colors unchanged.
C19_SinkReadOnly == [][SinkStep => UNCHANGED engine]_vars

\* the page holds the figure of a view query
Drawn ==
  /\ app \in {"brd", "grok"}
  /\ status.op = "view"
  /\ ~figure.out.raised

\* hide-all is an option of beans_resonance_dash.py alone
HideAll == app = "brd" /\ "hide_all" \in figure.query.visibility_options

\* C20: every edge in the Visible View has both endpoints in the visible node
\* set (nodes that survived the node filters) and a layer that belongs to the
\* selected-layer set, and when hide-all is set the Visible View contains no
\* edge.
C20_VisibleEdges ==
  Drawn =>
    /\ \A m \in 1..Len(figure.out.edges) :
         /\ figure.out.edges[m][2] \in figure.out.nodes
         /\ figure.out.edges[m][3] \in figure.out.nodes
         /\ figure.out.edges[m][1] \in Range(figure.query.selected_layers)
    /\ HideAll => figure.out.edges = <<>>

\* a selected layer holds an edge that lost an end to the node filters while
\* another of its edges is drawn
C20_Witness ==
  /\ Drawn
  /\ figure.out.edges # <<>>
  /\ \E l \in Range(figure.query.selected_layers) \cap DOMAIN edges :
       \E m \in 1..Len(edges[l]) :
         /\ {edges[l][m][1], edges[l][m][2]} \cap figure.out.nodes # {}
         /\ ~({edges[l][m][1], edges[l][m][2]} \subseteq figure.out.nodes)

\* the figure of beans_resonance_dash.py for the last query with the
\* numerical connection filter taken out
WithoutConn ==
  BrdFigure(nodes, edges, layers, origins, [figure.query EXCEPT !.conn_number = {}])

\* the last query of beans_resonance_dash.py set the numerical connection
\* filter: a value and a subset of the layers
ConnFiltered ==
  /\ app = "brd"
  /\ status.op = "view"
  /\ figure.query.conn_number # {}
  /\ figure.query.conn_layers # {}

\* C21: when the numeric connection filter is set, an edge whose layer is in
\* the filter's layer subset is kept only if its value equals the filter
\* value, and an edge whose layer is not in that subset is unaffected by the
\* filter.
C21_ConnectionFilter ==
  ConnFiltered =>
    figure.out.edges =
      SelectSeq(WithoutConn.edges,
                LAMBDA line : line[1] \in figure.query.conn_layers
                                => line[4] \in figure.query.conn_number)

\* the filter has kept an edge of its layers, dropped another, and left an
\* edge of another layer with another value in the view
C21_Witness ==
  /\ ConnFiltered
  /\ \E m \in 1..Len(figure.out.edges) :
       figure.out.edges[m][1] \in figure.query.conn_layers
  /\ \E m \in 1..Len(figure.out.edges) :
       /\ figure.out.edges[m][1] \notin figure.query.conn_layers
       /\ figure.out.edges[m][4] \notin figure.query.conn_number
  /\ \E m \in 1..Len(WithoutConn.edges) :
       /\ WithoutConn.edges[m][1] \in figure.query.conn_layers
       /\ WithoutConn.edges[m][4] \notin figure.query.conn_number

-----------------------------------------------------------------------------
(* Highlight *)

\* line m of the view touches the highlighted node
Touches(m) ==
  /\ figure.query.highlight_word # ""
  /\ figure.query.highlight_word \in {figure.out.edges[m][2], figure.out.edges[m][3]}

\* C22 (the highlight width is 7 and the default width 3 in both graph
\* pages, the prime colour is gold): edge render attributes follow the precedence highlight > prime >
\* default: every visible edge touching the highlighted node gets the
\* highlight attributes whether or not its value is prime; any other visible
\* edge with a prime value gets the prime attributes; all remaining visible
\* edges get the default attributes.
C22_AttributePrecedence ==
  Drawn =>
    \A m \in 1..Len(figure.out.edges) :
      IF Touches(m) THEN figure.out.attrs[m].width = 7
      ELSE IF is_prime(figure.out.edges[m][4])
           THEN /\ figure.out.attrs[m].color = "gold"
                /\ figure.out.attrs[m].width # 7
           ELSE /\ figure.out.attrs[m].color = "layer"
                /\ figure.out.attrs[m].width = 3

\* the nodes that an edge of a selected layer joins to the highlighted node,
\* whichever end of the edge it is
Neighbours ==
  {n \in Range(nodes) :
     \E l \in Range(figure.query.selected_layers) \cap DOMAIN edges :
       \E m \in 1..Len(edges[l]) :
         {edges[l][m][1], edges[l][m][2]} = {figure.query.highlight_word, n}}

\* the nodes that pass the node filters of the last query
Surviving ==
  IF app = "brd"
  THEN BrdNodesToDraw(nodes, edges, layers, origins, figure.query)
  ELSE GrokNodesToDraw(words, nodes, layers, origins, figure.query)

\* the last query highlights a node with fading; grok_dash.py fades
\* whenever a node is highlighted
Faded ==
  /\ Drawn
  /\ figure.query.highlight_word # ""
  /\ app = "brd" => "fade_unconnected" \in figure.query.visibility_options

\* C23: when fade-unconnected is active and a highlight item is set, the
\* fully rendered nodes are exactly the highlight plus every surviving node
\* that shares an edge with the highlight under the selected layers
\* (whichever endpoint of the edge the highlight is); every other surviving
\* node is faded but still present in the Visible View.
C23_FadeUnconnected ==
  Faded =>
    /\ figure.out.fully =
         figure.out.nodes \cap ({figure.query.highlight_word} \cup Neighbours)
    /\ figure.out.nodes = Surviving

-----------------------------------------------------------------------------
(* Layout and colour *)

\* C24: whenever the anchor item is present in the node set, the layout
\* produced by every build and rebuild (for every layout mode, and also when
\* the anchor is added after other items already have positions) places the
\* anchor at its fixed coordinate.
C24_AnchorPinned ==
  (app \in {"brd", "grok"} /\ InSeq("Beans", nodes)) => pos["Beans"] = ORIGIN

\* GLOBAL_NODE_COLORS: every build assigns it last, from the nodes and the
\* shared resonances it has just built
GLOBAL_NODE_COLORS == NodeColors(app, hashSeed, nodes, shared)

\* the colours a rebuild from the registry would assign
ColorsRebuilt ==
  NodeColors(app, hashSeed, Rebuild(app, hashSeed, words).nodes,
             Rebuild(app, hashSeed, words).shared)

\* C25: determinism of color: color(item) called twice with an unchanged
\* registry returns the same value, and a rebuild from unchanged input
\* assigns every item the same color as before.
C25_ColorDeterminism ==
  app \in {"brd", "grok"} => ColorsRebuilt = GLOBAL_NODE_COLORS

\* the layout toggle has rebuilt grok_dash.py from an unchanged registry, a
\* further rebuild orders the registry differently, and a node has a colour
\* of its shared resonances
C25_Witness ==
  /\ app = "grok"
  /\ status.op = "layout"
  /\ Rebuild(app, hashSeed, words).words # words
  /\ \E n \in Range(nodes) : CountedFor(shared, n) # {}
  /\ ColorsRebuilt = GLOBAL_NODE_COLORS

-----------------------------------------------------------------------------
(* Export *)

\* C26: bulk export is a deterministic serialization of the full Item
\* Registry: the canonical identities in sorted order, one per line, each
\* registered item appearing on exactly one line regardless of the order or
\* history of the operations that built the registry.
C26_ExportOncePerItem ==
  status.op = "export" =>
    /\ \A m \in 1..(Len(figure.out) - 1) :
         ~StrLess(figure.out[m + 1], figure.out[m])
    /\ Range(figure.out) = Range(words)
    /\ \A m, k \in 1..Len(figure.out) : figure.out[m] = figure.out[k] => m = k

-----------------------------------------------------------------------------
(* Submissions *)

\* after the step the identity of text is registered and the origin tag of
\* the search box is among its origins
Accepted(text) ==
  \E w \in Registered' :
    /\ Identity(w) = Identity(text)
    /\ SubmitOrigin(app) \in OriginSets'[w]

\* C27: submit(raw_text, origin_tag) rejects, with reason invalid_format,
\* every text that fails the letters/spaces-only validation, and accepts
\* every other text (single words and multi-word phrases of any length),
\* merging the origin tag into the item's origins.
C27_SubmitValidation ==
  [][status'.op = "search" =>
       IF FailsValidation(status'.input)
       THEN status'.msg \in Rejections
       ELSE status'.msg \notin Rejections /\ Accepted(status'.input)]_vars

\* Place of a layer in the registration order of the program's encodings.
LayerPlace(a, layer) ==
  CHOOSE i \in 1..Len(CALC_FUNCS(a)) : CALC_FUNCS(a)[i] = layer

\* The groups of sh are listed layer by layer in registration order.
LayersContiguous(a, sh) ==
  \A i, j \in 1..Len(sh) :
    i < j => LayerPlace(a, sh[i][1]) <= LayerPlace(a, sh[j][1])

\* Within one layer the groups of sh are listed by increasing value.
ValuesAscending(sh) ==
  \A i, j \in 1..Len(sh) :
    (i < j /\ sh[i][1] = sh[j][1]) => sh[i][2] < sh[j][2]

\* C28: the resonance groups are listed in layer-then-value order: the groups
\* of one layer are contiguous, layers follow their registration order, and
\* within a layer the groups follow the natural order of their values.
C28_LayerThenValueOrder ==
  app \in {"grok", "v21"} =>
    (LayersContiguous(app, shared) /\ ValuesAscending(shared))

-----------------------------------------------------------------------------
(* Derived state after a change of the registry *)

\* the registry as the list a rebuild starts from: the rows of the table
\* words in gematria_dictionaryv2.1.py, GLOBAL_WORDS in the other variants
RegistryList == IF app = "v21" THEN SortedSeq(DOMAIN db) ELSE words

\* the groups of a Layer Index, members as a set
GroupSets(ls) ==
  UNION {{<<l, ls[l][k].val, Range(ls[l][k].group)>> : k \in 1..Len(ls[l])} :
           l \in DOMAIN ls}

\* the resonance groups, members as a set
SharedSets(sh) == {<<sh[i][1], sh[i][2], Range(sh[i][3])>> : i \in 1..Len(sh)}

\* the edges of a graph, ends as a set
EdgeSets(es) ==
  UNION {{<<l, {es[l][k][1], es[l][k][2]}, es[l][k][3]>> : k \in 1..Len(es[l])} :
           l \in DOMAIN es}

\* Layer Index, resonance groups and graph, whatever the order of their lists
Content(ls, sh, ns, es) ==
  [layers |-> GroupSets(ls), shared |-> SharedSets(sh),
   nodes |-> Range(ns), edges |-> EdgeSets(es)]

FullRebuild == Rebuild(app, hashSeed, RegistryList)

\* C29: after every operation that changes the registry, the Layer Index, the
\* resonance groups and the graph hold what a full rebuild from the current
\* registry produces: no removed item is left in them and no added item is
\* missing from them.
C29_DerivedIsRebuild ==
  Content(layers, shared, nodes, edges)
    = Content(FullRebuild.layers, FullRebuild.shared,
              FullRebuild.nodes, FullRebuild.edges)

-----------------------------------------------------------------------------
(* The frame of a single add *)

\* the item w is registered, with the same origins, after the step exactly as
\* before it
Untouched(w) ==
  /\ w \in Registered <=> w \in Registered'
  /\ w \in DOMAIN OriginSets <=> w \in DOMAIN OriginSets'
  /\ (w \in DOMAIN OriginSets /\ w \in DOMAIN OriginSets')
       => OriginSets[w] = OriginSets'[w]

\* the items of other identities than text are untouched, and an item of the
\* identity of text that the step creates has the one origin tag tag
AddsOnly(text, tag) ==
  /\ \A w \in Registered \cup Registered' \cup DOMAIN OriginSets \cup DOMAIN OriginSets' :
       Identity(w) # Identity(text) => Untouched(w)
  /\ \A w \in Registered' \ Registered :
       Identity(w) = Identity(text) => OriginSets'[w] = {tag}

\* C30: a single add(text, origin) changes the registry by at most one item,
\* the one whose identity is the normalized text: it creates that item with
\* origins = {origin} if the identity was absent, and it never creates,
\* deletes or changes the origins of any other item, such as the individual
\* words of a multi-word phrase.
C30_AddChangesOneItem ==
  [][status'.op = "search" => AddsOnly(status'.input, SubmitOrigin(app))]_vars

====
